---- MODULE Spec2Model ----
(***************************************************************************)
(* PyImportSync: import discovery (scanner, gitignore, cache) and          *)
(* reconciliation against the requirements manifest (analyzer, utils).     *)
(*                                                                         *)
(* Strings are sequences of one-character strings, so that str.strip,      *)
(* str.lower, str.replace, fnmatch and path joining are computed character *)
(* by character as the Python code computes them.  A path is a sequence of *)
(* components (pathlib's parts), each component a string.                  *)
(***************************************************************************)
EXTENDS Integers, Sequences, FiniteSets, TLC

VARIABLES
    \* ---- utils.normalize_package_name applied once and twice
    nm_pc, nm_in, nm_once, nm_twice,
    \* ---- utils.load_config called by DependencyChecker.__init__
    lc_pc, lc_config_file, lc_config, lc_result,
    \* ---- DependencyAnalyzer
    an_pc, imports, requirements_file, package_metadata_mappings,
    requirements_packages, an_rest, resolved, matched_packages, missing_packages,
    \* ---- the environment of a run: project tree and configuration
    tree, project_root, gitignore_file, overrides, HAS_PATHSPEC, python_3_10, cache_file,
    \* ---- DependencyChecker: config, FileCache, GitignoreHandler, ImportScanner
    pc, config, cache, gitignore_handler, stdlib_modules,
    todo, all_imports, result, visit,
    \* ---- history: what each catalog entry was made from; counters
    seen, seen_saved, mods, scans

nmVars == <<nm_pc, nm_in, nm_once, nm_twice>>
anVars == <<an_pc, imports, requirements_file, package_metadata_mappings,
            requirements_packages, an_rest, resolved, matched_packages,
            missing_packages>>
scVars == <<tree, project_root, gitignore_file, overrides, HAS_PATHSPEC, python_3_10,
            cache_file, pc, config, cache, gitignore_handler, stdlib_modules,
            todo, all_imports, result, visit, seen, seen_saved, mods, scans>>
lcVars == <<lc_pc, lc_config_file, lc_config, lc_result>>
vars == <<nmVars, anVars, scVars, lcVars>>

(***************************************************************************)
(* Bounds of the model.                                                    *)
(***************************************************************************)
MaxNameLen == 3
MaxImports == 3
MaxMods == 1
MaxScans == 2

(***************************************************************************)
(* Characters and strings.                                                 *)
(***************************************************************************)
UpperLetters == <<"A","B","C","D","E","F","G","H","I","J","K","L","M",
                  "N","O","P","Q","R","S","T","U","V","W","X","Y","Z">>
LowerLetters == <<"a","b","c","d","e","f","g","h","i","j","k","l","m",
                  "n","o","p","q","r","s","t","u","v","w","x","y","z">>
Digits == {"0","1","2","3","4","5","6","7","8","9"}

Range(s) == {s[i] : i \in DOMAIN s}

\* the characters str.strip() with no argument removes
Whitespace == {" ", "\t", "\n", "\r"}

\* str.lower() on one character
LowerChar(c) ==
    IF \E i \in DOMAIN UpperLetters : UpperLetters[i] = c
    THEN LowerLetters[CHOOSE i \in DOMAIN UpperLetters : UpperLetters[i] = c]
    ELSE c

\* str.lower()
Lower(s) == [i \in DOMAIN s |-> LowerChar(s[i])]

\* str.replace(old, new) for a one-character old
ReplaceChar(s, old, new) == [i \in DOMAIN s |-> IF s[i] = old THEN new ELSE s[i]]

RECURSIVE LStrip(_, _)
LStrip(s, cs) == IF s # <<>> /\ Head(s) \in cs THEN LStrip(Tail(s), cs) ELSE s

RECURSIVE RStrip(_, _)
RStrip(s, cs) ==
    IF s # <<>> /\ s[Len(s)] \in cs THEN RStrip(SubSeq(s, 1, Len(s) - 1), cs) ELSE s

\* str.strip(chars)
Strip(s, cs) == RStrip(LStrip(s, cs), cs)

\* str.startswith(prefix)
StartsWith(s, p) == Len(s) >= Len(p) /\ SubSeq(s, 1, Len(p)) = p

\* str.endswith(suffix)
EndsWith(s, p) == Len(s) >= Len(p) /\ SubSeq(s, Len(s) - Len(p) + 1, Len(s)) = p

\* one pass of str.replace('--', '-'): non-overlapping occurrences, left to right
RECURSIVE ReplaceDoubleHyphen(_)
ReplaceDoubleHyphen(s) ==
    IF Len(s) < 2 THEN s
    ELSE IF s[1] = "-" /\ s[2] = "-"
         THEN <<"-">> \o ReplaceDoubleHyphen(SubSeq(s, 3, Len(s)))
         ELSE <<s[1]>> \o ReplaceDoubleHyphen(Tail(s))

HasDoubleHyphen(s) == \E i \in 1..(Len(s) - 1) : s[i] = "-" /\ s[i + 1] = "-"

\* while '--' in normalized: normalized = normalized.replace('--', '-')
RECURSIVE CollapseHyphens(_)
CollapseHyphens(s) ==
    IF HasDoubleHyphen(s) THEN CollapseHyphens(ReplaceDoubleHyphen(s)) ELSE s

\* all strings over cs of length at most n
RECURSIVE StringsUpTo(_, _)
StringsUpTo(cs, n) ==
    IF n = 0 THEN {<<>>}
    ELSE LET shorter == StringsUpTo(cs, n - 1)
         IN  shorter \cup {<<c>> \o s : c \in cs, s \in {t \in shorter : Len(t) = n - 1}}

(***************************************************************************)
(* utils.normalize_package_name                                            *)
(***************************************************************************)
normalize_package_name(name) ==
    IF name = <<>> THEN <<>>
    ELSE LET stripped == Lower(Strip(name, Whitespace))
         IN  IF stripped = <<>> THEN <<>>
             ELSE LET normalized ==
                          ReplaceChar(ReplaceChar(ReplaceChar(stripped, "_", "-"),
                                                  ".", "-"), " ", "-")
                  IN  Strip(CollapseHyphens(normalized), {"-"})

\* the two names of the documented example
MyPackageName == <<"M","y","_","P","a","c","k","a","g","e",".","N","a","m","e">>
my_package_name == <<"m","y","-","p","a","c","k","a","g","e","-","n","a","m","e">>

\* characters of the package names fed to normalize_package_name
NameChars == {"M", "a", "-", "_", ".", " ", "\t"}
NameInputs == StringsUpTo(NameChars, MaxNameLen) \cup {MyPackageName, my_package_name}

NmInit ==
    /\ nm_pc = "in"
    /\ nm_in \in NameInputs
    /\ nm_once = <<>>
    /\ nm_twice = <<>>

\* y = normalize_package_name(x)
NormalizeOnce ==
    /\ nm_pc = "in"
    /\ nm_once' = normalize_package_name(nm_in)
    /\ nm_pc' = "once"
    /\ UNCHANGED <<nm_in, nm_twice>>

\* normalize_package_name(y)
NormalizeTwice ==
    /\ nm_pc = "once"
    /\ nm_twice' = normalize_package_name(nm_once)
    /\ nm_pc' = "twice"
    /\ UNCHANGED <<nm_in, nm_once>>

(***************************************************************************)
(* Dictionaries are sets of <<key, value>> pairs with unique keys.         *)
(***************************************************************************)
DictKeys(d) == {e[1] : e \in d}
DictHas(d, k) == \E e \in d : e[1] = k
DictGet(d, k) == (CHOOSE e \in d : e[1] = k)[2]
DictPut(d, k, v) == {e \in d : e[1] # k} \cup {<<k, v>>}

(***************************************************************************)
(* utils.get_known_import_mappings                                         *)
(***************************************************************************)
get_known_import_mappings == {
    <<<<"c","v","2">>, <<"o","p","e","n","c","v","-","p","y","t","h","o","n">>>>,
    <<<<"P","I","L">>, <<"P","i","l","l","o","w">>>>,
    <<<<"y","a","m","l">>, <<"P","y","Y","A","M","L">>>>,
    <<<<"d","a","t","e","u","t","i","l">>, <<"p","y","t","h","o","n","-","d","a","t","e","u","t","i","l">>>>,
    <<<<"s","k","l","e","a","r","n">>, <<"s","c","i","k","i","t","-","l","e","a","r","n">>>>,
    <<<<"s","k","i","m","a","g","e">>, <<"s","c","i","k","i","t","-","i","m","a","g","e">>>>,
    <<<<"b","s","4">>, <<"b","e","a","u","t","i","f","u","l","s","o","u","p","4">>>>,
    <<<<"r","e","q","u","e","s","t","s","_","o","a","u","t","h","l","i","b">>, <<"r","e","q","u","e","s","t","s","-","o","a","u","t","h","l","i","b">>>>,
    <<<<"j","w","t">>, <<"P","y","J","W","T">>>>,
    <<<<"s","e","r","i","a","l">>, <<"p","y","s","e","r","i","a","l">>>>,
    <<<<"m","a","g","i","c">>, <<"p","y","t","h","o","n","-","m","a","g","i","c">>>>,
    <<<<"M","y","S","Q","L","d","b">>, <<"m","y","s","q","l","c","l","i","e","n","t">>>>,
    <<<<"p","s","y","c","o","p","g","2">>, <<"p","s","y","c","o","p","g","2","-","b","i","n","a","r","y">>>>,
    <<<<"O","p","e","n","S","S","L">>, <<"p","y","O","p","e","n","S","S","L">>>>,
    <<<<"C","r","y","p","t","o">>, <<"p","y","c","r","y","p","t","o">>>>,
    <<<<"n","a","c","l">>, <<"P","y","N","a","C","l">>>>,
    <<<<"l","x","m","l">>, <<"l","x","m","l">>>>,
    <<<<"d","o","t","e","n","v">>, <<"p","y","t","h","o","n","-","d","o","t","e","n","v">>>>,
    <<<<"g","o","o","g","l","e">>, <<"g","o","o","g","l","e","-","c","l","o","u","d">>>>,
    <<<<"a","z","u","r","e">>, <<"a","z","u","r","e">>>>,
    <<<<"b","o","t","o","3">>, <<"b","o","t","o","3">>>>,
    <<<<"t","e","n","s","o","r","f","l","o","w">>, <<"t","e","n","s","o","r","f","l","o","w">>>>,
    <<<<"t","o","r","c","h">>, <<"t","o","r","c","h">>>>,
    <<<<"t","r","a","n","s","f","o","r","m","e","r","s">>, <<"t","r","a","n","s","f","o","r","m","e","r","s">>>>,
    <<<<"d","a","t","a","s","e","t","s">>, <<"d","a","t","a","s","e","t","s">>>>,
    <<<<"a","c","c","e","l","e","r","a","t","e">>, <<"a","c","c","e","l","e","r","a","t","e">>>>,
    <<<<"r","e","s","t","_","f","r","a","m","e","w","o","r","k">>, <<"d","j","a","n","g","o","r","e","s","t","f","r","a","m","e","w","o","r","k">>>>,
    <<<<"d","j","a","n","g","o","_","e","x","t","e","n","s","i","o","n","s">>, <<"d","j","a","n","g","o","-","e","x","t","e","n","s","i","o","n","s">>>>,
    <<<<"d","j","a","n","g","o","_","d","e","b","u","g","_","t","o","o","l","b","a","r">>, <<"d","j","a","n","g","o","-","d","e","b","u","g","-","t","o","o","l","b","a","r">>>>,
    <<<<"d","j","a","n","g","o","_","c","o","r","s","_","h","e","a","d","e","r","s">>, <<"d","j","a","n","g","o","-","c","o","r","s","-","h","e","a","d","e","r","s">>>>,
    <<<<"d","j","a","n","g","o","_","f","i","l","t","e","r">>, <<"d","j","a","n","g","o","-","f","i","l","t","e","r">>>>
    }

(***************************************************************************)
(* analyzer.DependencyAnalyzer                                             *)
(***************************************************************************)
\* [a-zA-Z0-9_.-]
RequirementNameChars ==
    Range(UpperLetters) \cup Range(LowerLetters) \cup Digits \cup {"_", ".", "-"}

\* the whole line taken as the name
LeadingRun_WholeLine(s, cs) == s

\* the longest prefix of s made of characters of cs
RECURSIVE LeadingRun(_, _)
LeadingRun(s, cs) ==
    IF s # <<>> /\ Head(s) \in cs
    THEN <<Head(s)>> \o LeadingRun(Tail(s), cs)
    ELSE <<>>

\* the package names one line of the requirements file adds (none or one)
RequirementLineNames(raw) ==
    LET line == Strip(raw, Whitespace)
    IN  IF line = <<>> \/ StartsWith(line, <<"#">>) THEN {}
        ELSE LET name == LeadingRun(line, RequirementNameChars)
             IN  IF name = <<>> THEN {} ELSE {name}

\* get_requirements_packages that declares numpy and PyYAML whatever the
\* manifest holds
get_requirements_packages_Guessed(file) == {<<"n","u","m","p","y">>, <<"P","y","Y","A","M","L">>}

\* DependencyAnalyzer.get_requirements_packages; a requirements file is
\* [exists, readable, decodable, lines]: open() fails with OSError on a file
\* that is not readable, and reading raises UnicodeDecodeError on bytes that
\* are not UTF-8
get_requirements_packages(file) ==
    IF ~file.exists THEN {}
    ELSE IF ~file.readable THEN {}
    ELSE UNION {RequirementLineNames(file.lines[i]) : i \in DOMAIN file.lines}

\* the exception get_requirements_packages does not catch: only OSError is
\* handled, UnicodeDecodeError is a ValueError
get_requirements_packages_raises(file) ==
    file.exists /\ file.readable /\ ~file.decodable

\* str.split(sep) for a non-empty separator
RECURSIVE Split(_, _)
Split(s, sep) ==
    IF \E i \in 1..(Len(s) - Len(sep) + 1) : SubSeq(s, i, i + Len(sep) - 1) = sep
    THEN LET i == CHOOSE j \in 1..(Len(s) - Len(sep) + 1) :
                      /\ SubSeq(s, j, j + Len(sep) - 1) = sep
                      /\ \A k \in 1..(j - 1) : SubSeq(s, k, k + Len(sep) - 1) # sep
         IN  <<SubSeq(s, 1, i - 1)>> \o Split(SubSeq(s, i + Len(sep), Len(s)), sep)
    ELSE <<s>>

\* the separator the harvesting splits top_level.txt on: the two characters
\* backslash and n of the literal '\\n'
TopLevelSeparator == <<"\\", "n">>

\* for top_level in top_levels: if top_level: mappings[top_level] = package_name
RECURSIVE PutTopLevels(_, _, _)
PutTopLevels(mappings, top_levels, package_name) ==
    IF top_levels = <<>> THEN mappings
    ELSE PutTopLevels(IF Head(top_levels) # <<>>
                      THEN DictPut(mappings, Head(top_levels), package_name)
                      ELSE mappings,
                      Tail(top_levels), package_name)

\* the body of the loop over pkg_resources.working_set for one distribution
\* dist = [project_name, has_top_level, top_level]
HarvestDistribution(mappings, dist) ==
    LET package_name == dist.project_name
        with_top == IF dist.has_top_level
                    THEN PutTopLevels(mappings,
                                      Split(Strip(dist.top_level, Whitespace),
                                            TopLevelSeparator),
                                      package_name)
                    ELSE mappings
        normalized_name == ReplaceChar(ReplaceChar(package_name, "-", "_"), ".", "_")
    IN  DictPut(with_top, normalized_name, package_name)

RECURSIVE HarvestAll(_, _)
HarvestAll(mappings, dists) ==
    IF dists = <<>> THEN mappings
    ELSE HarvestAll(HarvestDistribution(mappings, Head(dists)), Tail(dists))

\* DependencyAnalyzer._get_package_metadata_mappings; the environment is
\* [has_pkg_resources, working_set]
get_package_metadata_mappings(env) ==
    IF ~env.has_pkg_resources THEN {} ELSE HarvestAll({}, env.working_set)

\* _enhanced_package_matching that guesses the import name itself
enhanced_package_matching_Identity(known_mappings, metadata_mappings, import_name) ==
    import_name

\* _enhanced_package_matching with strategies 1 and 2 in the other order
enhanced_package_matching_MetadataFirst(known_mappings, metadata_mappings, import_name) ==
    IF DictHas(metadata_mappings, import_name)
    THEN DictGet(metadata_mappings, import_name)
    ELSE IF DictHas(known_mappings, import_name)
         THEN DictGet(known_mappings, import_name)
         ELSE import_name

\* DependencyAnalyzer._enhanced_package_matching
enhanced_package_matching(known_mappings, metadata_mappings, import_name) ==
    IF DictHas(known_mappings, import_name)
    THEN DictGet(known_mappings, import_name)
    ELSE IF DictHas(metadata_mappings, import_name)
         THEN DictGet(metadata_mappings, import_name)
         ELSE import_name

\* the text between the import name and the package name of a matched entry
MatchedSeparator == <<" ", "U+00E2", "U+2020", "U+2019", " ">>

\* f"{import_name} <separator> {package_name}"
MatchedEntry(import_name, package_name) ==
    import_name \o MatchedSeparator \o package_name

\* ---- the inputs of the analyzer
Dist(name, has, text) == [project_name |-> name, has_top_level |-> has, top_level |-> text]

Environments == {
    [has_pkg_resources |-> FALSE, working_set |-> <<>>],
    [has_pkg_resources |-> TRUE,
     working_set |-> << Dist(<<"F","l","a","s","k">>, TRUE, <<"f","l","a","s","k">> \o <<"\n">>),
                        Dist(<<"P","y","Y","A","M","L">>, TRUE, <<"_","y","a","m","l">> \o <<"\n">> \o <<"y","a","m","l">> \o <<"\n">>),
                        Dist(<<"m","y","-","m","o","d">>, FALSE, <<>>) >>],
    [has_pkg_resources |-> TRUE,
     working_set |-> << Dist(<<"y","a","m","l","-","s","t","u","b">>, TRUE, <<"y","a","m","l">>),
                        Dist(<<"n","u","m","p","y">>, TRUE, <<"n","u","m","p","y">> \o <<"\n">>) >>] }

ReqFile(lines) ==
    [exists |-> TRUE, readable |-> TRUE, decodable |-> TRUE, lines |-> lines]

RequirementFiles == {
    [exists |-> FALSE, readable |-> FALSE, decodable |-> FALSE, lines |-> <<>>],
    [exists |-> TRUE, readable |-> FALSE, decodable |-> FALSE, lines |-> <<<<"r","e","q","u","e","s","t","s">>>>],
    [exists |-> TRUE, readable |-> TRUE, decodable |-> FALSE, lines |-> <<<<"r","e","q","u","e","s","t","s">>>>],
    ReqFile(<<>>),
    ReqFile(<<<<"r","e","q","u","e","s","t","s","=","=","2",".","3","1",".","0">>, <<"F","l","a","s","k",">","=","2",".","0">>>>),
    ReqFile(<<<<"#"," ","p","i","n","n","e","d">>, <<>>, <<" "," ","P","y","Y","A","M","L"," ">>, <<"M","y",".","M","o","d","~","=","1",".","0">>, <<"n","u","m","p","y">>>>),
    ReqFile(<<<<"-","r"," ","b","a","s","e",".","t","x","t">>, <<" "," ","#"," ","n","o","t","e">>, <<"y","a","m","l","_","s","t","u","b">>, <<" ">>, <<"=","b","r","o","k","e","n">>>>) }

ImportNames == {<<"r","e","q","u","e","s","t","s">>, <<"f","l","a","s","k">>, <<"y","a","m","l">>, <<"P","y","Y","A","M","L">>, <<"m","y","_","m","o","d">>, <<"n","u","m","p","y">>}

AnInit ==
    /\ an_pc = "constructed"
    /\ imports \in {s \in SUBSET ImportNames : Cardinality(s) <= MaxImports}
    /\ requirements_file \in RequirementFiles
    /\ package_metadata_mappings \in {get_package_metadata_mappings(e) : e \in Environments}
    /\ requirements_packages = {}
    /\ an_rest = {}
    /\ resolved = {}
    /\ matched_packages = <<>>
    /\ missing_packages = <<>>

\* analyze_dependencies, up to the loop; an exception of
\* get_requirements_packages leaves analyze_dependencies without a result
AnalyzeBegin ==
    /\ an_pc = "constructed"
    /\ IF get_requirements_packages_raises(requirements_file)
       THEN /\ an_pc' = "raised"
            /\ UNCHANGED <<requirements_packages, an_rest, matched_packages,
                           missing_packages, resolved>>
       ELSE /\ requirements_packages' = get_requirements_packages(requirements_file)
            /\ an_rest' = imports
            /\ matched_packages' = <<>>
            /\ missing_packages' = <<>>
            /\ resolved' = {}
            /\ an_pc' = "loop"
    /\ UNCHANGED <<imports, requirements_file, package_metadata_mappings>>

\* analyze_import reporting the raw import name as missing
analyze_import_RawMissing(import_name, metadata_mappings, reqs, matched, missing) ==
    LET package_name == enhanced_package_matching(get_known_import_mappings,
                                                  metadata_mappings, import_name)
        normalized_requirements == {normalize_package_name(pkg) : pkg \in reqs}
    IN  IF package_name = <<>>
        THEN [package_name |-> package_name, matched |-> matched, missing |-> missing]
        ELSE IF normalize_package_name(package_name) \in normalized_requirements
             THEN [package_name |-> package_name,
                   matched |-> Append(matched, MatchedEntry(import_name, package_name)),
                   missing |-> missing]
             ELSE [package_name |-> package_name,
                   matched |-> matched,
                   missing |-> Append(missing, import_name)]

\* analyze_import that reports a package as missing once only
analyze_import_Deduplicated(import_name, metadata_mappings, reqs, matched, missing) ==
    LET package_name == enhanced_package_matching(get_known_import_mappings,
                                                  metadata_mappings, import_name)
        normalized_requirements == {normalize_package_name(pkg) : pkg \in reqs}
    IN  IF package_name = <<>>
        THEN [package_name |-> package_name, matched |-> matched, missing |-> missing]
        ELSE IF normalize_package_name(package_name) \in normalized_requirements
             THEN [package_name |-> package_name,
                   matched |-> Append(matched, MatchedEntry(import_name, package_name)),
                   missing |-> missing]
             ELSE [package_name |-> package_name,
                   matched |-> matched,
                   missing |-> IF package_name \in Range(missing) THEN missing
                               ELSE Append(missing, package_name)]

\* the body of `for import_name in imports`: the package name resolved and
\* the two lists after the iteration
analyze_import(import_name, metadata_mappings, reqs, matched, missing) ==
    LET package_name == enhanced_package_matching(get_known_import_mappings,
                                                  metadata_mappings, import_name)
        normalized_requirements == {normalize_package_name(pkg) : pkg \in reqs}
    IN  IF package_name = <<>>
        THEN [package_name |-> package_name, matched |-> matched, missing |-> missing]
        ELSE IF normalize_package_name(package_name) \in normalized_requirements
             THEN [package_name |-> package_name,
                   matched |-> Append(matched, MatchedEntry(import_name, package_name)),
                   missing |-> missing]
             ELSE [package_name |-> package_name,
                   matched |-> matched,
                   missing |-> Append(missing, package_name)]

\* one iteration of `for import_name in imports` (a set: any order)
AnalyzeImport ==
    /\ an_pc = "loop"
    /\ \E import_name \in an_rest :
         LET after == analyze_import(import_name, package_metadata_mappings,
                                     requirements_packages, matched_packages,
                                     missing_packages)
         IN  /\ an_rest' = an_rest \ {import_name}
             /\ resolved' = resolved \cup {<<import_name, after.package_name>>}
             /\ matched_packages' = after.matched
             /\ missing_packages' = after.missing
    /\ UNCHANGED <<an_pc, imports, requirements_file, package_metadata_mappings,
                   requirements_packages>>

\* the loop is exhausted: analyze_dependencies returns the result
AnalyzeReturn ==
    /\ an_pc = "loop"
    /\ an_rest = {}
    /\ an_pc' = "done"
    /\ UNCHANGED <<imports, requirements_file, package_metadata_mappings,
                   requirements_packages, an_rest, resolved, matched_packages,
                   missing_packages>>

(***************************************************************************)
(* Paths (pathlib): a path is the sequence of its parts; an absolute path  *)
(* starts with the part "/".                                               *)
(***************************************************************************)
Slash == <<"/">>

IsAbsolute(path) == path # <<>> /\ Head(path) = Slash

RECURSIVE JoinParts(_)
JoinParts(parts) ==
    IF parts = <<>> THEN <<>>
    ELSE IF Len(parts) = 1 THEN Head(parts)
    ELSE Head(parts) \o Slash \o JoinParts(Tail(parts))

\* str(path)
PathStr(path) ==
    IF path = <<>> THEN <<".">>
    ELSE IF IsAbsolute(path) THEN Slash \o JoinParts(Tail(path))
    ELSE JoinParts(path)

IsPrefix(p, s) == Len(p) <= Len(s) /\ SubSeq(s, 1, Len(p)) = p

\* path.relative_to(root) succeeds
IsRelativeTo(path, root) == IsPrefix(root, path)
\* path.relative_to(root)
RelativeTo(path, root) == SubSeq(path, Len(root) + 1, Len(path))

\* path.parents of a relative path, the last one being Path('.'); of an
\* absolute path, the last one being the root "/"
Parents(path) ==
    {SubSeq(path, 1, n) : n \in (IF IsAbsolute(path) THEN 1 ELSE 0)..(Len(path) - 1)}

(***************************************************************************)
(* Names used by the project trees of the model.                           *)
(***************************************************************************)
n_os == <<"o","s">>
n_json == <<"j","s","o","n">>
n_dataclasses == <<"d","a","t","a","c","l","a","s","s","e","s">>
n_binhex == <<"b","i","n","h","e","x">>
n_future == <<"_","_","f","u","t","u","r","e","_","_">>
n_main_mod == <<"_","_","m","a","i","n","_","_">>
n_builtin == <<"_","_","b","u","i","l","t","i","n","_","_">>
n_builtins == <<"b","u","i","l","t","i","n","s">>
n_requests == <<"r","e","q","u","e","s","t","s">>
n_flask == <<"f","l","a","s","k">>
n_yaml == <<"y","a","m","l">>
n_numpy == <<"n","u","m","p","y">>
n_linalg == <<"l","i","n","a","l","g">>
n_helper == <<"h","e","l","p","e","r">>
n_blog == <<"b","l","o","g">>
n_main == <<"m","a","i","n">>
n_vendor == <<"v","e","n","d","o","r">>
n_src == <<"s","r","c">>
n_apps == <<"a","p","p","s">>
n_init_py == <<"_","_","i","n","i","t","_","_",".","p","y">>
DotPy == <<".","p","y">>

(***************************************************************************)
(* utils.get_dynamic_stdlib_modules: sys.stdlib_module_names on Python     *)
(* 3.10 and later, the hard-coded table before; both restricted to the     *)
(* names that occur in the model.                                          *)
(***************************************************************************)
get_dynamic_stdlib_modules(is_3_10) ==
    IF is_3_10
    THEN {n_os, n_json, n_future, n_builtins, n_dataclasses}
    ELSE {n_os, n_json, n_future, n_builtins, n_binhex}

(***************************************************************************)
(* utils.load_config.  A configuration dictionary is a record: its keys    *)
(* are the fields, dict.update is DictUpdate, the empty dictionary is the  *)
(* function with the empty domain.  A list value is held as the set of its *)
(* items.                                                                  *)
(***************************************************************************)
DefaultIgnoreDirs ==
    {<<".","g","i","t">>, <<".","p","y","t","e","s","t","_","c","a","c","h","e">>, <<".","v","e","n","v">>, <<"_","_","p","y","c","a","c","h","e","_","_">>, <<"b","u","i","l","d">>, <<"d","i","s","t">>,
     <<"d","o","c","s">>, <<"e","n","v">>, <<"e","x","a","m","p","l","e","s">>, <<"n","o","d","e","_","m","o","d","u","l","e","s">>, <<"s","t","a","t","i","c">>, <<"t","e","s","t","s">>, <<"v","e","n","v">>}

default_config ==
    [ignore_dirs |-> DefaultIgnoreDirs,
     requirements_file |-> <<"r","e","q","u","i","r","e","m","e","n","t","s",".","t","x","t">>,
     enable_cache |-> TRUE,
     cache_file |-> <<".","p","y","i","m","p","o","r","t","s","y","n","c","_","c","a","c","h","e",".","j","s","o","n">>,
     use_pathspec |-> TRUE,
     skip_imports |-> {}]

EmptyDict == [k \in {} |-> TRUE]
DictUpdate(d, e) ==
    [k \in DOMAIN d \cup DOMAIN e |-> IF k \in DOMAIN e THEN e[k] ELSE d[k]]

\* a config file: given (a path was passed), exists, readable (open succeeds),
\* decodable (its bytes are UTF-8), json: "invalid" (JSONDecodeError), "object"
\* (data holds it) or "number" (a JSON value dict.update cannot take)
ConfigFile(json, data) ==
    [given |-> TRUE, exists |-> TRUE, readable |-> TRUE, decodable |-> TRUE,
     json |-> json, data |-> data]
NoConfigFile == [ConfigFile("invalid", EmptyDict) EXCEPT !.given = FALSE, !.exists = FALSE]

\* the file is read only when no explicit (non-empty) config is given
load_config_reads_file(config_file, explicit_config) ==
    /\ DOMAIN explicit_config = {}
    /\ config_file.given /\ config_file.exists

\* open and OSError, json.load and JSONDecodeError are caught; UnicodeDecodeError
\* of the read and the TypeError of dict.update are not
load_config_raises(config_file, explicit_config) ==
    /\ load_config_reads_file(config_file, explicit_config)
    /\ config_file.readable
    /\ (~config_file.decodable \/ config_file.json = "number")

load_config(config_file, explicit_config) ==
    IF DOMAIN explicit_config # {}
    THEN DictUpdate(default_config, explicit_config)
    ELSE IF /\ load_config_reads_file(config_file, explicit_config)
            /\ config_file.readable /\ config_file.decodable
            /\ config_file.json = "object"
         THEN DictUpdate(default_config, config_file.data)
         ELSE default_config

\* utils.should_skip_import (defined by utils, called by nothing)
should_skip_import(import_name, skip_imports) == import_name \in skip_imports

(***************************************************************************)
(* The project tree: which files exist below the project root, and what    *)
(* each holds.  A file's content is named; FileContent gives what the      *)
(* reads of it see.                                                        *)
(***************************************************************************)
Absent == "absent"

p_main == <<<<"m","a","i","n",".","p","y">>>>
p_vendor_lib == <<n_vendor, <<"l","i","b",".","p","y">>>>
p_src_helper == <<n_src, <<"h","e","l","p","e","r",".","p","y">>>>
p_apps_blog == <<n_apps, n_blog, n_init_py>>
TreePaths == {p_main, p_vendor_lib, p_src_helper, p_apps_blog}

\* lines of Python source
ImportLine(names) == [kind |-> "import", level |-> 0, modules |-> names]
FromLine(level, module) == [kind |-> "from", level |-> level, modules |-> <<module>>]
CodeLine == [kind |-> "code", level |-> 0, modules |-> <<>>]
JunkLine == [kind |-> "junk", level |-> 0, modules |-> <<>>]
\* a line of a string literal that reads "from <word> ..." or "import <word> ..."
TextLine(word) == [kind |-> "text", level |-> 0, modules |-> <<<<word>>>>]

Source(lines) == [readable |-> TRUE, decodable |-> TRUE, lines |-> lines]

FileContent(c) ==
    CASE c = "plain" -> Source(<<CodeLine>>)
      [] c = "app" ->
            Source(<< ImportLine(<<<<n_os>>>>),
                      ImportLine(<<<<n_requests>>>>),
                      FromLine(0, <<n_flask>>),
                      ImportLine(<<<<n_helper>>, <<n_blog>>>>),
                      CodeLine >>)
      [] c = "lib" ->
            Source(<< FromLine(0, <<n_future>>),
                      ImportLine(<<<<n_json>>, <<n_numpy, n_linalg>>>>),
                      FromLine(1, <<>>),
                      FromLine(0, <<n_main>>),
                      ImportLine(<<<<n_builtin>>>>),
                      ImportLine(<<<<n_dataclasses>>>>) >>)
      [] c = "broken" ->
            Source(<< JunkLine,
                      ImportLine(<<<<n_requests>>, <<n_numpy>>>>),
                      FromLine(0, <<n_yaml>>),
                      FromLine(2, <<n_flask>>) >>)
      [] c = "pkg" ->
            Source(<< FromLine(1, <<n_yaml, n_linalg>>),
                      FromLine(2, <<n_helper>>),
                      FromLine(3, <<n_json>>),
                      FromLine(1, <<>>),
                      CodeLine >>)
      [] c = "notes" -> Source(<< TextLine(<<"h","e","r","e">>), CodeLine >>)
      [] c = "draft" -> Source(<< TextLine(<<"h","e","r","e">>), CodeLine, JunkLine >>)
      [] c = "binary" ->
            [readable |-> TRUE, decodable |-> FALSE,
             lines |-> << ImportLine(<<<<n_requests>>>>), JunkLine >>]
      [] c = "unreadable" -> [readable |-> FALSE, decodable |-> FALSE, lines |-> <<>>]

ContentIds == {"plain", "app", "lib", "pkg", "broken", "notes", "draft", "binary",
               "unreadable"}

\* the files rglob("*.py") enumerates: project_root / rel for every file of
\* the tree whose name ends in .py
PyFiles(tr, root) ==
    {root \o rel : rel \in {r \in TreePaths : tr[r] # Absent /\ EndsWith(r[Len(r)], DotPy)}}

\* Path.exists(): a file of the tree, or a directory above one
PathExists(tr, root, path) ==
    /\ IsRelativeTo(path, root)
    /\ \E r \in TreePaths : tr[r] # Absent /\ IsPrefix(RelativeTo(path, root), r)

\* the content of the file at an enumerated path
ContentAt(tr, root, filepath) == tr[RelativeTo(filepath, root)]

\* is_local_module that looks at the project root only
is_local_module_RootOnly(import_name, tr, root) ==
    \/ StartsWith(import_name, <<".">>)
    \/ PathExists(tr, root, root \o <<import_name \o DotPy>>)
    \/ PathExists(tr, root, root \o <<import_name, n_init_py>>)

(***************************************************************************)
(* utils.is_local_module                                                   *)
(***************************************************************************)
is_local_module(import_name, tr, root) ==
    \/ StartsWith(import_name, <<".">>)
    \/ \E path \in { root \o <<import_name \o DotPy>>,
                     root \o <<import_name, n_init_py>>,
                     root \o <<n_src, import_name \o DotPy>>,
                     root \o <<n_src, import_name, n_init_py>>,
                     root \o <<n_apps, import_name, n_init_py>> } :
           PathExists(tr, root, path)

(***************************************************************************)
(* gitignore.GitignoreHandler                                              *)
(***************************************************************************)
\* _load_gitignore_patterns; the .gitignore file is [exists, readable,
\* decodable, lines]
RECURSIVE LoadPatterns(_)
LoadPatterns(lines) ==
    IF lines = <<>> THEN <<>>
    ELSE LET line == Strip(Head(lines), Whitespace)
         IN  IF line # <<>> /\ ~StartsWith(line, <<"#">>)
             THEN <<line>> \o LoadPatterns(Tail(lines))
             ELSE LoadPatterns(Tail(lines))

load_gitignore_patterns(file) ==
    IF ~file.exists THEN <<>>
    ELSE IF ~file.readable THEN <<>>
    ELSE LoadPatterns(file.lines)

\* _load_gitignore_patterns catches OSError only: reading bytes that are not
\* UTF-8 raises UnicodeDecodeError out of GitignoreHandler.__init__
load_gitignore_patterns_raises(file) ==
    file.exists /\ file.readable /\ ~file.decodable

\* fnmatch.fnmatchcase on strings: * matches any run of characters (also
\* "/"), ? any one character, every other character itself
RECURSIVE FnMatch(_, _)
FnMatch(s, p) ==
    IF p = <<>> THEN s = <<>>
    ELSE IF Head(p) = "*"
         THEN FnMatch(s, Tail(p)) \/ (s # <<>> /\ FnMatch(Tail(s), p))
    ELSE IF Head(p) = "?"
         THEN s # <<>> /\ FnMatch(Tail(s), Tail(p))
    ELSE s # <<>> /\ Head(s) = Head(p) /\ FnMatch(Tail(s), Tail(p))

\* the path the matchers look at: relative to the project root when the
\* path is absolute, the path as it is otherwise; relative_to raises
\* ValueError for an absolute path outside the root
RelPathFails(path, root) == IsAbsolute(path) /\ ~IsRelativeTo(path, root)
RelPath(path, root) == IF IsAbsolute(path) THEN RelativeTo(path, root) ELSE path

\* _is_ignored_by_fnmatch
is_ignored_by_fnmatch(pats, path, root) ==
    IF RelPathFails(path, root) THEN FALSE
    ELSE LET rel_path == RelPath(path, root)
         IN  \E i \in DOMAIN pats :
                 \/ FnMatch(PathStr(rel_path), pats[i])
                 \/ \E parent \in Parents(rel_path) : FnMatch(PathStr(parent), pats[i])

\* ---- pathspec's gitwildmatch, as far as the patterns of the model go:
\* literal characters, *, ?, a leading or inner "/" (anchoring), a trailing
\* "/" (directory), "**" segments and a leading "!" (negation)
\* one path segment against one pattern segment: * and ? never match "/"
SegMatch(part, seg) == FnMatch(part, seg)

DoubleStar == <<"*", "*">>

\* the pattern's segments after pathspec's normalisation
GitSegments(pattern) ==
    LET body == IF StartsWith(pattern, <<"!">>) THEN Tail(pattern) ELSE pattern
        segs == Split(body, Slash)
        anchored ==
            IF Head(segs) = <<>> THEN Tail(segs)
            ELSE IF Len(segs) = 1 \/ (Len(segs) = 2 /\ segs[2] = <<>>)
                 THEN <<DoubleStar>> \o segs
                 ELSE segs
    IN  IF anchored # <<>> /\ anchored[Len(anchored)] = <<>> /\ Len(anchored) > 1
        THEN [anchored EXCEPT ![Len(anchored)] = DoubleStar]
        ELSE anchored

\* the segments against the parts of the relative path; a pattern matches a
\* file when it matches the file or a directory above it
RECURSIVE GitMatch(_, _)
GitMatch(segs, parts) ==
    IF segs = <<>> THEN TRUE
    ELSE IF Head(segs) = DoubleStar
         THEN IF Tail(segs) = <<>> THEN parts # <<>>
              ELSE \E k \in 0..Len(parts) :
                       GitMatch(Tail(segs), SubSeq(parts, k + 1, Len(parts)))
    ELSE /\ parts # <<>>
         /\ Head(segs) # <<>>
         /\ SegMatch(Head(parts), Head(segs))
         /\ GitMatch(Tail(segs), Tail(parts))

GitPatternMatches(pattern, parts) ==
    LET segs == GitSegments(pattern) IN segs # <<>> /\ GitMatch(segs, parts)

\* PathSpec.match_file: the last pattern that matches decides
PathSpecMatchFile(pats, parts) ==
    LET hits == {i \in DOMAIN pats : GitPatternMatches(pats[i], parts)}
    IN  /\ hits # {}
        /\ LET last == CHOOSE i \in hits : \A j \in hits : j <= i
           IN  ~StartsWith(pats[last], <<"!">>)

\* _is_ignored_by_pathspec
is_ignored_by_pathspec(pats, path, root) ==
    IF RelPathFails(path, root) THEN FALSE
    ELSE PathSpecMatchFile(pats, RelPath(path, root))

\* GitignoreHandler.is_ignored; handler = [use_pathspec, patterns,
\* has_matcher], and a PathSpec of no patterns is falsy (its __len__ is 0)
is_ignored(handler, path, root) ==
    IF handler.use_pathspec /\ handler.has_matcher /\ Len(handler.patterns) > 0
    THEN is_ignored_by_pathspec(handler.patterns, path, root)
    ELSE is_ignored_by_fnmatch(handler.patterns, path, root)

\* _create_pathspec_matcher: PathSpec.from_lines raises for a pattern that
\* gitwildmatch rejects, here the negation of nothing "!"; the exception is
\* caught and the matcher is None
from_lines_raises(pats) == \E i \in DOMAIN pats : pats[i] = <<"!">>

\* GitignoreHandler.__init__
GitignoreHandler(file, use_pathspec, has_pathspec) ==
    [use_pathspec |-> use_pathspec /\ has_pathspec,
     patterns |-> load_gitignore_patterns(file),
     has_matcher |-> /\ use_pathspec /\ has_pathspec
                     /\ ~from_lines_raises(load_gitignore_patterns(file))]

(***************************************************************************)
(* cache.FileCache; a cache is [enabled, cache_data, is_dict], cache_data a *)
(* dictionary from str(filepath) to [hash, imports, timestamp]; is_dict is *)
(* false when json.load gave cache_data a value that is not a dictionary   *)
(***************************************************************************)
\* a digest that does not depend on the bytes read
Md5_OfNothing(c) == <<"md5", "d41d8cd9">>

\* hashlib.md5(bytes).hexdigest(): distinct digests for the distinct contents
\* of the model
Md5(c) == <<"md5", c>>

\* FileCache.get_file_hash: "" when the file cannot be opened
get_file_hash(c) ==
    IF c = Absent \/ ~FileContent(c).readable THEN <<>> ELSE Md5(c)

FileKey(filepath) == PathStr(filepath)

\* is_file_cached without the comparison of the hashes
is_file_cached_AnyHash(fc, filepath, c) ==
    IF ~fc.enabled THEN FALSE
    ELSE IF ~DictHas(fc.cache_data, FileKey(filepath)) THEN FALSE
    ELSE get_file_hash(c) # <<>> /\ DictGet(fc.cache_data, FileKey(filepath)).has_imports

\* is_file_cached without the test 'imports' in cached_entry
is_file_cached_HashOnly(fc, filepath, c) ==
    IF ~fc.enabled THEN FALSE
    ELSE IF ~DictHas(fc.cache_data, FileKey(filepath)) THEN FALSE
    ELSE get_file_hash(c) # <<>>
         /\ DictGet(fc.cache_data, FileKey(filepath)).hash = get_file_hash(c)

\* FileCache.is_file_cached
is_file_cached(fc, filepath, c) ==
    IF ~fc.enabled THEN FALSE
    ELSE IF ~DictHas(fc.cache_data, FileKey(filepath)) THEN FALSE
    ELSE LET cached_entry == DictGet(fc.cache_data, FileKey(filepath))
             current_hash == get_file_hash(c)
         IN  /\ current_hash # <<>>
             /\ cached_entry.hash = current_hash
             /\ cached_entry.has_imports

\* FileCache.get_cached_imports
get_cached_imports(fc, filepath) ==
    IF ~fc.enabled THEN {}
    ELSE IF DictHas(fc.cache_data, FileKey(filepath))
         THEN LET e == DictGet(fc.cache_data, FileKey(filepath))
              IN  IF e.has_imports THEN e.imports ELSE {}
         ELSE {}

\* cache_file_imports that stores nothing
cache_file_imports_NotStored(fc, filepath, c, file_imports, now) == fc.cache_data

\* cache_file_imports without the test of self.enabled
cache_file_imports_Ungated(fc, filepath, c, file_imports, now) ==
    DictPut(fc.cache_data, FileKey(filepath),
            [hash |-> get_file_hash(c), has_imports |-> TRUE,
             imports |-> file_imports, timestamp |-> now])

\* cache_file_imports that starts a new catalog with every entry it writes
cache_file_imports_Alone(fc, filepath, c, file_imports, now) ==
    IF ~fc.enabled THEN fc.cache_data
    ELSE {<<FileKey(filepath),
            [hash |-> get_file_hash(c), has_imports |-> TRUE,
             imports |-> file_imports, timestamp |-> now]>>}

\* FileCache.cache_file_imports: the new cache_data
cache_file_imports(fc, filepath, c, file_imports, now) ==
    IF ~fc.enabled THEN fc.cache_data
    ELSE DictPut(fc.cache_data, FileKey(filepath),
                 [hash |-> get_file_hash(c), has_imports |-> TRUE,
                  imports |-> file_imports, timestamp |-> now])

\* FileCache.cache_file_imports raises TypeError: self.cache_data[file_key] =
\* ... on a list
cache_file_imports_raises(fc) == fc.enabled /\ ~fc.is_dict

\* FileCache._load_cache; the cache file is [state, data] with state one of
\* "absent", "json" (what save_cache wrote), "corrupt" (text that is not
\* JSON), "undecodable" (bytes that are not UTF-8) and "list" (the JSON text
\* of a list)
load_cache(enabled, file) ==
    IF ~enabled THEN {}
    ELSE IF file.state = "json" THEN file.data
    ELSE {}

\* json.load gave a dictionary, or _load_cache left the initial {} in place
load_cache_is_dict(enabled, file) == ~enabled \/ file.state # "list"

\* _load_cache catches json.JSONDecodeError and OSError; the
\* UnicodeDecodeError of undecodable bytes is neither
load_cache_raises(enabled, file) == enabled /\ file.state = "undecodable"

(***************************************************************************)
(* scanner.ImportScanner                                                   *)
(***************************************************************************)
\* _should_skip_file that looks at the last component only
should_skip_file_NameOnly(ignore_dirs, filepath) ==
    filepath[Len(filepath)] \in ignore_dirs

\* _should_skip_file
should_skip_file(ignore_dirs, filepath) ==
    \E i \in DOMAIN filepath : filepath[i] \in ignore_dirs

\* _extract_imports_from_ast: ast.parse succeeds when no line is malformed
ParsesAsPython(lines) == \A i \in DOMAIN lines : lines[i].kind # "junk"

\* the walk over the syntax tree that takes a from-import only when it has no
\* leading dot
AstLineImports_AbsoluteOnly(line) ==
    IF line.kind = "import"
    THEN {Head(line.modules[j]) : j \in DOMAIN line.modules}
    ELSE IF line.kind = "from" /\ line.level = 0 /\ line.modules[1] # <<>>
         THEN {Head(line.modules[1])}
         ELSE {}

\* the walk over the syntax tree, per statement: an Import node gives the
\* first segment of every alias, an ImportFrom node that of its module
AstLineImports(line) ==
    IF line.kind = "import"
    THEN {Head(line.modules[j]) : j \in DOMAIN line.modules}
    ELSE IF line.kind = "from" /\ line.modules[1] # <<>>
         THEN {Head(line.modules[1])}
         ELSE {}

extract_imports_from_ast(lines) == UNION {AstLineImports(lines[i]) : i \in DOMAIN lines}

\* _extract_imports_regex: ^\s*import\s+(\w+) and ^\s*from\s+(\w+) per line
RegexLineImports(line) ==
    IF line.kind \in {"import", "text"} THEN {Head(line.modules[1])}
    ELSE IF line.kind = "from" /\ line.level = 0 /\ line.modules[1] # <<>>
         THEN {Head(line.modules[1])}
         ELSE {}

extract_imports_regex(c) ==
    LET file == FileContent(c)
    IN  IF ~file.readable \/ ~file.decodable THEN {}
        ELSE UNION {RegexLineImports(file.lines[i]) : i \in DOMAIN file.lines}

\* _extract_imports_from_file that decodes with errors="ignore": bytes that
\* are not UTF-8 are dropped and the rest is parsed
extract_imports_from_file_IgnoreErrors(c) ==
    LET file == FileContent(c)
    IN  IF ~file.readable THEN {}
        ELSE IF ParsesAsPython(file.lines) THEN extract_imports_from_ast(file.lines)
        ELSE UNION {RegexLineImports(file.lines[i]) : i \in DOMAIN file.lines}

\* _extract_imports_from_file without the fallback: a file that does not
\* parse yields nothing
extract_imports_from_file_NoFallback(c) ==
    LET file == FileContent(c)
    IN  IF ~file.readable \/ ~file.decodable THEN {}
        ELSE IF ParsesAsPython(file.lines) THEN extract_imports_from_ast(file.lines)
        ELSE {}

\* _extract_imports_from_file
extract_imports_from_file(c) ==
    LET file == FileContent(c)
    IN  IF ~file.readable \/ ~file.decodable THEN {}
        ELSE IF ParsesAsPython(file.lines) THEN extract_imports_from_ast(file.lines)
        ELSE extract_imports_regex(c)

ReservedNames == {n_future, n_main_mod, n_builtin, n_builtins}

\* _filter_external_imports without the standard-library test
filter_external_imports_KeepStdlib(imps, stdlib, tr, root) ==
    {imp \in imps : ~is_local_module(imp, tr, root) /\ imp \notin ReservedNames}

\* _filter_external_imports
filter_external_imports(imps, stdlib, tr, root) ==
    {imp \in imps : /\ imp \notin stdlib
                    /\ ~is_local_module(imp, tr, root)
                    /\ imp \notin ReservedNames}

\* the import set find_imports_in_code takes for one surviving file, and
\* whether it came from the cache
FileImports(fc, filepath, c) ==
    IF is_file_cached(fc, filepath, c)
    THEN get_cached_imports(fc, filepath)
    ELSE extract_imports_from_file(c)

\* the loop's skip test with the directory test applied below the project
\* root only
SkipsFile_BelowRoot(ignore_dirs, handler, filepath, root) ==
    \/ should_skip_file(ignore_dirs, RelativeTo(filepath, root))
    \/ is_ignored(handler, filepath, root)

\* the file is skipped by the loop of find_imports_in_code
SkipsFile(ignore_dirs, handler, filepath, root) ==
    should_skip_file(ignore_dirs, filepath) \/ is_ignored(handler, filepath, root)

\* find_imports_in_code as one function of the cache it starts with
find_imports_in_code(fc, ignore_dirs, handler, stdlib, tr, root) ==
    filter_external_imports(
        UNION {FileImports(fc, f, ContentAt(tr, root, f)) :
                   f \in {g \in PyFiles(tr, root) : ~SkipsFile(ignore_dirs, handler, g, root)}},
        stdlib, tr, root)

(***************************************************************************)
(* The environments the checker runs in.                                   *)
(***************************************************************************)
NoOverrides == EmptyDict

Tree(main, vendor_lib, src_helper, apps_blog) ==
    [p \in TreePaths |->
        IF p = p_main THEN main
        ELSE IF p = p_vendor_lib THEN vendor_lib
        ELSE IF p = p_src_helper THEN src_helper
        ELSE apps_blog]

TextFile(lines) ==
    [exists |-> TRUE, readable |-> TRUE, decodable |-> TRUE, lines |-> lines]
NoFile == [exists |-> FALSE, readable |-> FALSE, decodable |-> FALSE, lines |-> <<>>]

GitignoreVendor ==
    TextFile(<< <<"#"," ","d","e","p","e","n","d","e","n","c","i","e","s">>, <<>>, <<"v","e","n","d","o","r","/">>, <<"*",".","p","y","c">> \o <<" ">> >>)

\* the .gitignore of test_gitignore_loading
GitignoreOfTest ==
    TextFile(<< <<>>, <<"#"," ","P","y","t","h","o","n">>, <<"_","_","p","y","c","a","c","h","e","_","_","/">>, <<"*",".","p","y","c">>, <<>>,
                <<"#"," ","V","i","r","t","u","a","l"," ","e","n","v","i","r","o","n","m","e","n","t","s">>, <<"v","e","n","v","/">>, <<"e","n","v","/">> >>)

DefaultEnvironment ==
    [project_root |-> <<Slash, <<"w">>>>,
     tree |-> Tree("app", "lib", "plain", Absent),
     gitignore_file |-> GitignoreVendor,
     overrides |-> NoOverrides,
     HAS_PATHSPEC |-> TRUE,
     python_3_10 |-> TRUE]

ProjectEnvironments == {
    DefaultEnvironment,
    [DefaultEnvironment EXCEPT !.project_root = <<<<"p","r","o","j">>>>],
    [DefaultEnvironment EXCEPT !.project_root = <<Slash, <<"b","u","i","l","d">>, <<"w">>>>],
    [DefaultEnvironment EXCEPT !.tree = Tree("broken", "app", Absent, "plain")],
    [DefaultEnvironment EXCEPT !.gitignore_file = NoFile],
    [DefaultEnvironment EXCEPT !.gitignore_file = GitignoreOfTest],
    [DefaultEnvironment EXCEPT !.gitignore_file =
        [GitignoreVendor EXCEPT !.readable = FALSE, !.decodable = FALSE]],
    [DefaultEnvironment EXCEPT !.gitignore_file =
        [GitignoreVendor EXCEPT !.decodable = FALSE]],
    [DefaultEnvironment EXCEPT !.gitignore_file =
        TextFile(<< <<"/","v","e","n","d","o","r">>, <<"!","m","a","i","n",".","p","y">>, <<"a","p","p","s","/","*","/">> >>)],
    [DefaultEnvironment EXCEPT !.HAS_PATHSPEC = FALSE],
    [DefaultEnvironment EXCEPT !.HAS_PATHSPEC = FALSE, !.project_root = <<<<"p","r","o","j">>>>,
                               !.gitignore_file = TextFile(<< <<"s","r","c">> >>)],
    [DefaultEnvironment EXCEPT !.gitignore_file = TextFile(<< <<"v","e","n","d","o","r","/">>, <<"!">> >>)],
    [DefaultEnvironment EXCEPT !.overrides =
        [use_pathspec |-> FALSE]],
    [DefaultEnvironment EXCEPT !.overrides =
        [skip_imports |-> {n_requests}]],
    [DefaultEnvironment EXCEPT !.overrides =
        [ignore_dirs |-> {n_src, <<".","g","i","t">>}]],
    [DefaultEnvironment EXCEPT !.python_3_10 = FALSE] }

\* the project trees the environments are combined with
ProjectTrees ==
    {Tree(m, v, h, b) : m \in {"app", "lib", "pkg", "broken", "notes", "draft",
                              "binary", "unreadable"},
                        v \in {Absent, "app", "lib"},
                        h \in {Absent, "plain"},
                        b \in {Absent, "plain"}}

\* what the last iteration of the scan loop did: the file, whether it was
\* skipped, its content, whether the catalog entry was fresh, whether the
\* extractor ran, the import set taken, and what the catalog had been given
\* for the file before (by this catalog or the saved one it was loaded from)
NoVisit == [file |-> <<>>, skipped |-> FALSE, content |-> Absent, fresh |-> FALSE,
            extracted |-> FALSE, imports |-> {},
            seen_before |-> FALSE, seen_content |-> Absent, seen_imports |-> {}]

InitChecker ==
    /\ pc = "none"
    /\ config = load_config(NoConfigFile, overrides)
    /\ cache = [enabled |-> FALSE, cache_data |-> {}, is_dict |-> TRUE]
    /\ gitignore_handler = [use_pathspec |-> FALSE, patterns |-> <<>>, has_matcher |-> FALSE]
    /\ stdlib_modules = {}
    /\ todo = {}
    /\ all_imports = {}
    /\ result = {}
    /\ visit = NoVisit
    /\ seen = {}
    /\ seen_saved = {}
    /\ mods = 0
    /\ scans = 0

InEnvironment(e) ==
    /\ project_root = e.project_root
    /\ gitignore_file = e.gitignore_file
    /\ overrides = e.overrides
    /\ HAS_PATHSPEC = e.HAS_PATHSPEC
    /\ python_3_10 = e.python_3_10

\* the cache file the first run finds: none, one whose bytes are not UTF-8,
\* one holding the JSON text []
NoCacheFile == [state |-> "absent", data |-> {}]
\* a cache file written by hand or by another version: the entry of /w/main.py
\* has the hash of its content but no 'imports', and there is an entry of a
\* file that is no longer in the project
CacheFileOfOldRun ==
    [state |-> "json",
     data |-> {<<FileKey(<<Slash, <<"w">>>> \o p_main),
                 [hash |-> Md5("app"), has_imports |-> FALSE, imports |-> {},
                  timestamp |-> 0]>>,
               <<FileKey(<<Slash, <<"w">>, <<"o","l","d",".","p","y">>>>),
                 [hash |-> Md5("lib"), has_imports |-> TRUE, imports |-> {n_requests},
                  timestamp |-> 0]>>}]

CacheFiles ==
    {NoCacheFile, [state |-> "undecodable", data |-> {}], [state |-> "list", data |-> {}],
     CacheFileOfOldRun}

\* runs of the checker with edits of the tree between the scans
ScInit ==
    /\ \E e \in {DefaultEnvironment,
                 [DefaultEnvironment EXCEPT !.HAS_PATHSPEC = FALSE],
                 [DefaultEnvironment EXCEPT !.project_root = <<<<"p","r","o","j">>>>,
                                            !.gitignore_file = NoFile,
                                            !.tree = Tree("broken", Absent, "plain", Absent)]} :
          InEnvironment(e) /\ tree = e.tree
    /\ cache_file \in CacheFiles
    /\ InitChecker

\* one environment and one project tree out of many
ScInitTrees ==
    /\ \E e \in ProjectEnvironments : InEnvironment(e)
    /\ tree \in ProjectTrees
    /\ cache_file = NoCacheFile
    /\ InitChecker

envVars == <<project_root, gitignore_file, overrides, HAS_PATHSPEC, python_3_10>>
checkerVars == <<config, cache, gitignore_handler, stdlib_modules>>
scanVars == <<todo, all_imports, result, visit>>

\* DependencyChecker.__init__: load_config, FileCache (with _load_cache),
\* GitignoreHandler, ImportScanner, in this order; an exception of _load_cache
\* or of _load_gitignore_patterns ends the construction
Construct ==
    /\ pc = "none"
    /\ scans < MaxScans
    /\ \E enable_cache \in BOOLEAN :
          LET cfg == IF enable_cache THEN load_config(NoConfigFile, overrides)
                     ELSE [load_config(NoConfigFile, overrides) EXCEPT !.enable_cache = FALSE]
          IN  /\ config' = cfg
              /\ IF load_cache_raises(cfg.enable_cache, cache_file)
                 THEN /\ pc' = "raised"
                      /\ UNCHANGED <<cache, gitignore_handler, stdlib_modules, seen>>
                 ELSE /\ cache' = [enabled |-> cfg.enable_cache,
                                   cache_data |-> load_cache(cfg.enable_cache, cache_file),
                                   is_dict |-> load_cache_is_dict(cfg.enable_cache,
                                                                  cache_file)]
                      /\ seen' = IF cfg.enable_cache /\ cache_file.state = "json"
                                 THEN seen_saved ELSE {}
                      /\ IF load_gitignore_patterns_raises(gitignore_file)
                         THEN /\ pc' = "raised"
                              /\ UNCHANGED <<gitignore_handler, stdlib_modules>>
                         ELSE /\ gitignore_handler' =
                                     GitignoreHandler(gitignore_file, cfg.use_pathspec,
                                                      HAS_PATHSPEC)
                              /\ stdlib_modules' = get_dynamic_stdlib_modules(python_3_10)
                              /\ pc' = "ready"
    /\ UNCHANGED <<envVars, tree, cache_file, scanVars, seen_saved, mods, scans>>

\* find_imports_in_code: all_imports = set(), rglob starts
StartScan ==
    /\ pc \in {"ready", "scanned", "returned", "saved"}
    /\ scans < MaxScans
    /\ todo' = PyFiles(tree, project_root)
    /\ all_imports' = {}
    /\ result' = {}
    /\ visit' = NoVisit
    /\ scans' = scans + 1
    /\ pc' = "scanning"
    /\ UNCHANGED <<envVars, tree, cache_file, checkerVars, seen, seen_saved, mods>>

\* the edits of the model: main.py and src/helper.py are rewritten, made
\* unreadable or deleted
Edits ==
    {<<p_main, c>> : c \in {"lib", "broken", "unreadable", "binary"}}
    \cup {<<p_src_helper, c>> : c \in {"app", Absent}}

\* one iteration of the loop over rglob("*.py") (in directory order: any); the
\* TypeError of cache_file_imports ends the scan without a result
ScanStep(py_file, c, c_hash) ==
    /\ pc = "scanning"
    /\ py_file \in todo
    /\ todo' = todo \ {py_file}
    /\ IF SkipsFile(config.ignore_dirs, gitignore_handler, py_file, project_root)
       THEN /\ visit' = [NoVisit EXCEPT !.file = py_file, !.skipped = TRUE,
                                        !.content = c]
            /\ UNCHANGED <<all_imports, cache, seen, pc>>
       ELSE IF ~is_file_cached(cache, py_file, c) /\ cache_file_imports_raises(cache)
       THEN /\ visit' = [NoVisit EXCEPT !.file = py_file, !.content = c,
                                        !.extracted = TRUE,
                                        !.imports = extract_imports_from_file(c)]
            /\ pc' = "raised"
            /\ UNCHANGED <<all_imports, cache, seen>>
       ELSE LET fresh == is_file_cached(cache, py_file, c)
                file_imports == FileImports(cache, py_file, c)
                before == DictHas(seen, FileKey(py_file))
            IN  /\ cache' = IF fresh THEN cache
                            ELSE [cache EXCEPT !.cache_data =
                                     cache_file_imports(cache, py_file, c_hash,
                                                        file_imports, scans)]
                /\ all_imports' = all_imports \cup file_imports
                /\ visit' =
                     [file |-> py_file, skipped |-> FALSE, content |-> c,
                      fresh |-> fresh, extracted |-> ~fresh,
                      imports |-> file_imports,
                      seen_before |-> before,
                      seen_content |-> IF before
                                       THEN DictGet(seen, FileKey(py_file)).content
                                       ELSE Absent,
                      seen_imports |-> IF before
                                       THEN DictGet(seen, FileKey(py_file)).imports
                                       ELSE {}]
                /\ seen' = IF cache.enabled
                           THEN DictPut(seen, FileKey(py_file),
                                        [content |-> c, imports |-> file_imports])
                           ELSE seen
                /\ UNCHANGED pc
    /\ UNCHANGED <<envVars, cache_file, config, gitignore_handler, stdlib_modules,
                   result, seen_saved, scans>>

\* one iteration of the loop on a file nobody writes to meanwhile
ScanFile ==
    /\ \E py_file \in todo :
          ScanStep(py_file, ContentAt(tree, project_root, py_file),
                   ContentAt(tree, project_root, py_file))
    /\ UNCHANGED <<tree, mods>>

\* one iteration of the loop on a file that is parsed and that another
\* process rewrites after _extract_imports_from_file has read it and before
\* cache_file_imports reads it again for get_file_hash
ScanFileModified ==
    /\ mods < MaxMods
    /\ \E py_file \in todo : \E ed \in Edits :
          LET c == ContentAt(tree, project_root, py_file) IN
          /\ ed[1] = RelativeTo(py_file, project_root)
          /\ ed[2] \notin {c, Absent}
          /\ ~SkipsFile(config.ignore_dirs, gitignore_handler, py_file, project_root)
          /\ ~is_file_cached(cache, py_file, c)
          /\ ScanStep(py_file, c, ed[2])
          /\ tree' = [tree EXCEPT ![ed[1]] = ed[2]]
    /\ mods' = mods + 1

\* the loop is exhausted: return self._filter_external_imports(all_imports)
FinishScan ==
    /\ pc = "scanning"
    /\ todo = {}
    /\ result' = filter_external_imports(all_imports, stdlib_modules, tree, project_root)
    /\ pc' = "scanned"
    /\ UNCHANGED <<envVars, tree, cache_file, checkerVars, todo, all_imports, visit,
                   seen, seen_saved, mods, scans>>

\* DependencyChecker.analyze_dependencies after the scan: the analyzer reads
\* the manifest (its classification is the subject of SpecAnalyze); an
\* exception of get_requirements_packages leaves analyze_dependencies before
\* save_cache is called
Reconcile ==
    /\ pc \in {"scanned", "returned"}
    /\ pc' = IF get_requirements_packages_raises(requirements_file)
             THEN "raised" ELSE "analyzed"
    /\ UNCHANGED <<envVars, tree, cache_file, checkerVars, scanVars, seen, seen_saved,
                   mods, scans>>

\* analyze_dependencies calls save_cache after every file was visited
analyze_dependencies_saves_AfterEachFile(at) == at \in {"scanning", "analyzed"}

\* analyze_dependencies calls save_cache after the scan and the analysis
analyze_dependencies_saves(at) == at = "analyzed"

\* FileCache.save_cache, as DependencyChecker.analyze_dependencies calls it
\* after the scan: the write succeeds, open() fails (OSError, nothing
\* written), or the write fails after open() truncated the file
SaveCache ==
    /\ analyze_dependencies_saves(pc)
    /\ IF ~cache.enabled
       THEN UNCHANGED <<cache_file, seen_saved>>
       ELSE \E outcome \in {"written", "not opened", "truncated"} :
               /\ cache_file' =
                     CASE outcome = "written" -> [state |-> "json", data |-> cache.cache_data]
                       [] outcome = "not opened" -> cache_file
                       [] outcome = "truncated" -> [state |-> "corrupt", data |-> {}]
               /\ seen_saved' =
                     CASE outcome = "written" -> seen
                       [] outcome = "not opened" -> seen_saved
                       [] outcome = "truncated" -> {}
    /\ pc' = "saved"
    /\ UNCHANGED <<envVars, tree, checkerVars, scanVars, seen, mods, scans>>

\* the process ends after its scan or with the exception: the checker and
\* its in-memory catalog are gone
Exit ==
    /\ pc \in {"scanned", "returned", "saved", "raised"}
    /\ pc' = "none"
    /\ cache' = [enabled |-> FALSE, cache_data |-> {}, is_dict |-> TRUE]
    /\ gitignore_handler' = [use_pathspec |-> FALSE, patterns |-> <<>>, has_matcher |-> FALSE]
    /\ stdlib_modules' = {}
    /\ todo' = {}
    /\ all_imports' = {}
    /\ result' = {}
    /\ visit' = NoVisit
    /\ seen' = {}
    /\ UNCHANGED <<envVars, tree, cache_file, config, seen_saved, mods, scans>>

\* between scans the user edits, creates, deletes or chmods a file
Modify ==
    /\ pc \in {"none", "ready", "scanned", "returned", "analyzed", "saved"}
    /\ mods < MaxMods
    /\ \E ed \in Edits :
          /\ ed[2] # tree[ed[1]]
          /\ tree' = [tree EXCEPT ![ed[1]] = ed[2]]
    /\ mods' = mods + 1
    /\ pc' = IF pc = "scanned" THEN "returned" ELSE pc
    /\ UNCHANGED <<envVars, cache_file, checkerVars, scanVars, seen, seen_saved, scans>>

(***************************************************************************)
(* The configuration of a checker: load_config, then the parameters of     *)
(* DependencyChecker.__init__.                                             *)
(***************************************************************************)
ConfigFiles ==
    {NoConfigFile,
     [ConfigFile("invalid", EmptyDict) EXCEPT !.exists = FALSE],
     [ConfigFile("invalid", EmptyDict) EXCEPT !.readable = FALSE, !.decodable = FALSE],
     [ConfigFile("invalid", EmptyDict) EXCEPT !.decodable = FALSE],
     ConfigFile("invalid", EmptyDict),
     ConfigFile("number", EmptyDict),
     ConfigFile("object", EmptyDict),
     ConfigFile("object", [enable_cache |-> FALSE]),
     ConfigFile("object", [ignore_dirs |-> {n_src}, verbose |-> TRUE])}

ExplicitConfigs ==
    {EmptyDict,
     [use_pathspec |-> FALSE],
     [skip_imports |-> {n_requests}],
     [ignore_dirs |-> {n_src, <<".","g","i","t">>}],
     [enable_cache |-> FALSE, cache_file |-> <<"c",".","j","s","o","n">>],
     [requirements_file |-> <<"r","e","q","s",".","t","x","t">>]}

LcInit ==
    /\ lc_pc = "call"
    /\ lc_config_file \in ConfigFiles
    /\ lc_config \in ExplicitConfigs
    /\ lc_result = EmptyDict

\* self.config = load_config(config_file, config)
LoadConfig ==
    /\ lc_pc = "call"
    /\ IF load_config_raises(lc_config_file, lc_config)
       THEN lc_pc' = "raised" /\ UNCHANGED lc_result
       ELSE /\ lc_pc' = "returned"
            /\ lc_result' = load_config(lc_config_file, lc_config)
    /\ UNCHANGED <<lc_config_file, lc_config>>

\* "Override config with explicit parameters": requirements_file when it is
\* not "requirements.txt", enable_cache when it is false
OverrideParameters ==
    /\ lc_pc = "returned"
    /\ \E requirements_file_arg \in {<<"r","e","q","u","i","r","e","m","e","n","t","s",".","t","x","t">>, <<"d","e","v",".","t","x","t">>},
          enable_cache \in BOOLEAN :
          LET r1 == IF requirements_file_arg # <<"r","e","q","u","i","r","e","m","e","n","t","s",".","t","x","t">>
                    THEN DictUpdate(lc_result,
                                    [requirements_file |-> requirements_file_arg])
                    ELSE lc_result
          IN  lc_result' = IF ~enable_cache
                           THEN DictUpdate(r1, [enable_cache |-> FALSE])
                           ELSE r1
    /\ lc_pc' = "configured"
    /\ UNCHANGED <<lc_config_file, lc_config>>

(***************************************************************************)
(* Specifications.                                                         *)
(***************************************************************************)
\* the values the variables of the other components keep
NmIdle == nm_pc = "off" /\ nm_in = <<>> /\ nm_once = <<>> /\ nm_twice = <<>>
AnIdle ==
    /\ an_pc = "off" /\ imports = {} /\ requirements_file = NoFile
    /\ package_metadata_mappings = {} /\ requirements_packages = {} /\ an_rest = {}
    /\ resolved = {} /\ matched_packages = <<>> /\ missing_packages = <<>>
ScIdle ==
    /\ project_root = <<>> /\ tree = Tree(Absent, Absent, Absent, Absent)
    /\ gitignore_file = NoFile /\ overrides = NoOverrides
    /\ HAS_PATHSPEC = FALSE /\ python_3_10 = FALSE
    /\ cache_file = [state |-> "absent", data |-> {}] /\ pc = "off"
    /\ config = load_config(NoConfigFile, NoOverrides)
    /\ cache = [enabled |-> FALSE, cache_data |-> {}, is_dict |-> TRUE]
    /\ gitignore_handler = [use_pathspec |-> FALSE, patterns |-> <<>>, has_matcher |-> FALSE]
    /\ stdlib_modules = {} /\ todo = {} /\ all_imports = {} /\ result = {}
    /\ visit = NoVisit /\ seen = {} /\ seen_saved = {}
    /\ mods = 0 /\ scans = 0

LcIdle ==
    /\ lc_pc = "off" /\ lc_config_file = NoConfigFile /\ lc_config = EmptyDict
    /\ lc_result = EmptyDict

\* the scanner with its cache and ignore rules
Init ==
    /\ ScInit /\ NmIdle /\ LcIdle
    /\ an_pc = "off" /\ imports = {}
    /\ requirements_file \in {NoFile, [ReqFile(<<<<"r","e","q","u","e","s","t","s">>>>) EXCEPT !.decodable = FALSE]}
    /\ package_metadata_mappings = {} /\ requirements_packages = {} /\ an_rest = {}
    /\ resolved = {} /\ matched_packages = <<>> /\ missing_packages = <<>>
Next ==
    \/ (Construct /\ UNCHANGED <<nmVars, anVars, lcVars>>)
    \/ (StartScan /\ UNCHANGED <<nmVars, anVars, lcVars>>)
    \/ (ScanFile /\ UNCHANGED <<nmVars, anVars, lcVars>>)
    \/ (FinishScan /\ UNCHANGED <<nmVars, anVars, lcVars>>)
    \/ (Reconcile /\ UNCHANGED <<nmVars, anVars, lcVars>>)
    \/ (SaveCache /\ UNCHANGED <<nmVars, anVars, lcVars>>)
    \/ (Exit /\ UNCHANGED <<nmVars, anVars, lcVars>>)
    \/ (Modify /\ UNCHANGED <<nmVars, anVars, lcVars>>)
Spec == Init /\ [][Next]_vars

\* the analyzer
InitAnalyze == AnInit /\ NmIdle /\ ScIdle /\ LcIdle
NextAnalyze ==
    \/ (AnalyzeBegin /\ UNCHANGED <<nmVars, scVars, lcVars>>)
    \/ (AnalyzeImport /\ UNCHANGED <<nmVars, scVars, lcVars>>)
    \/ (AnalyzeReturn /\ UNCHANGED <<nmVars, scVars, lcVars>>)
SpecAnalyze == InitAnalyze /\ [][NextAnalyze]_vars

\* one scan of each of many project trees in many environments
InitTrees == ScInitTrees /\ NmIdle /\ AnIdle /\ LcIdle
NextTrees ==
    \/ (Construct /\ UNCHANGED <<nmVars, anVars, lcVars>>)
    \/ (StartScan /\ UNCHANGED <<nmVars, anVars, lcVars>>)
    \/ (ScanFile /\ UNCHANGED <<nmVars, anVars, lcVars>>)
    \/ (FinishScan /\ UNCHANGED <<nmVars, anVars, lcVars>>)
SpecTrees == InitTrees /\ [][NextTrees]_vars

\* normalize_package_name on every bounded name
InitNormalize == NmInit /\ AnIdle /\ ScIdle /\ LcIdle
NextNormalize ==
    \/ (NormalizeOnce /\ UNCHANGED <<anVars, scVars, lcVars>>)
    \/ (NormalizeTwice /\ UNCHANGED <<anVars, scVars, lcVars>>)
SpecNormalize == InitNormalize /\ [][NextNormalize]_vars

\* load_config on every config file and explicit config, then the parameters
\* of DependencyChecker.__init__
InitConfig == LcInit /\ NmIdle /\ AnIdle /\ ScIdle
NextConfig ==
    \/ (LoadConfig /\ UNCHANGED <<nmVars, anVars, scVars>>)
    \/ (OverrideParameters /\ UNCHANGED <<nmVars, anVars, scVars>>)
SpecConfig == InitConfig /\ [][NextConfig]_vars

\* the scanner of one project with another process that rewrites files
\* while a scan reads them
InitRace ==
    /\ InEnvironment(DefaultEnvironment) /\ tree = DefaultEnvironment.tree
    /\ cache_file = NoCacheFile
    /\ InitChecker
    /\ NmIdle /\ AnIdle /\ LcIdle
NextRace ==
    \/ Next
    \/ (ScanFileModified /\ UNCHANGED <<nmVars, anVars, lcVars>>)
SpecRace == InitRace /\ [][NextRace]_vars

(***************************************************************************)
(* Properties.                                                             *)
(***************************************************************************)
\* the NameMapper priority as the specification states it: curated table,
\* then harvested metadata, then the import name itself
ResolvedName(i) ==
    IF \E e \in get_known_import_mappings : e[1] = i
    THEN (CHOOSE e \in get_known_import_mappings : e[1] = i)[2]
    ELSE IF \E e \in package_metadata_mappings : e[1] = i
         THEN (CHOOSE e \in package_metadata_mappings : e[1] = i)[2]
         ELSE i

\* the resolved name of i is declared, up to normalisation
IsDeclared(i) ==
    normalize_package_name(ResolvedName(i)) \in
        {normalize_package_name(q) : q \in get_requirements_packages(requirements_file)}

\* C1: when analyze_dependencies has returned, every import name whose
\* resolved package name is declared (after normalisation of both sides) has
\* its matched entry and adds nothing to missing, every other import name has
\* its resolved package name (not the raw import name) in missing and no
\* matched entry, and nothing else is in the two lists; with requests==2.31.0
\* and Flask>=2.0 declared and requests and flask imported, missing is empty
\* and both are matched.
C1_Classification ==
    an_pc = "done" =>
        /\ \A i \in imports :
              IF IsDeclared(i)
              THEN MatchedEntry(i, ResolvedName(i)) \in Range(matched_packages)
              ELSE /\ ResolvedName(i) \in Range(missing_packages)
                   /\ MatchedEntry(i, ResolvedName(i)) \notin Range(matched_packages)
        /\ Len(matched_packages) = Cardinality({i \in imports : IsDeclared(i)})
        /\ Len(missing_packages) = Cardinality({i \in imports : ~IsDeclared(i)})
        /\ Range(missing_packages) = {ResolvedName(i) : i \in {j \in imports : ~IsDeclared(j)}}
        /\ (/\ requirements_file = ReqFile(<<<<"r","e","q","u","e","s","t","s","=","=","2",".","3","1",".","0">>, <<"F","l","a","s","k",">","=","2",".","0">>>>)
            /\ imports = {n_requests, n_flask})
           => /\ missing_packages = <<>>
              /\ Range(matched_packages) =
                    {MatchedEntry(n_requests, n_requests),
                     MatchedEntry(n_flask, ResolvedName(n_flask))}
              /\ ResolvedName(n_flask) \in {n_flask, <<"F","l","a","s","k">>}

\* C1 witness: with the documented manifest and requests, flask and yaml
\* imported, flask was matched against the declared Flask and yaml went
\* missing under its curated name PyYAML
C1_Witness ==
    /\ an_pc = "done"
    /\ requirements_file = ReqFile(<<<<"r","e","q","u","e","s","t","s","=","=","2",".","3","1",".","0">>, <<"F","l","a","s","k",">","=","2",".","0">>>>)
    /\ imports = {n_requests, n_flask, n_yaml}
    /\ <<"F","l","a","s","k">> \in requirements_packages
    /\ Len(matched_packages) = 2
    /\ missing_packages = <<<<"P","y","Y","A","M","L">>>>

\* C10: every import name the loop has handled was resolved to exactly one
\* package name: the curated target if the curated table has the name (also
\* when the metadata maps it elsewhere), else the metadata target if there is
\* one, else the name itself; and when the loop ends every import name has
\* been resolved.
C10_Priority ==
    /\ \A r \in resolved :
          /\ r[1] \in imports
          /\ r[2] = ResolvedName(r[1])
          /\ r[2] # <<>>
          /\ DictHas(get_known_import_mappings, r[1])
                => r[2] = DictGet(get_known_import_mappings, r[1])
    /\ \A r1, r2 \in resolved : r1[1] = r2[1] => r1 = r2
    /\ an_pc = "loop" => DictKeys(resolved) = imports \ an_rest
    /\ an_pc = "done" => DictKeys(resolved) = imports

\* C10 witness: yaml was resolved to the curated PyYAML although the metadata
\* maps yaml to another distribution, numpy through the metadata only, and a
\* name nobody maps to itself
C10_Witness ==
    /\ an_pc = "done"
    /\ <<n_yaml, <<"P","y","Y","A","M","L">>>> \in resolved
    /\ DictHas(package_metadata_mappings, n_yaml)
    /\ DictGet(package_metadata_mappings, n_yaml) = <<"y","a","m","l","-","s","t","u","b">>
    /\ <<n_requests, n_requests>> \in resolved
    /\ ~DictHas(package_metadata_mappings, n_requests)
    /\ <<n_numpy, n_numpy>> \in resolved

\* C7: normalising a normalised name changes nothing, for every name, and
\* "My_Package.Name" and "my-package-name" normalise to the same name.
C7_Idempotent ==
    /\ nm_pc = "twice" => nm_twice = nm_once
    /\ normalize_package_name(MyPackageName) = normalize_package_name(my_package_name)

\* ---- the scanner
NoCache == [enabled |-> FALSE, cache_data |-> {}, is_dict |-> TRUE]

\* C2: the set a scan returns is the set the scan returns with the cache
\* disabled, on the same tree with the same configuration.
C2_CacheTransparent ==
    pc = "scanned" =>
        result = find_imports_in_code(NoCache, config.ignore_dirs, gitignore_handler,
                                      stdlib_modules, tree, project_root)

\* C2 witness: a scan has returned that took a file's imports from a catalog
\* loaded from the cache file, after an edit of the tree
C2_Witness ==
    /\ pc = "scanned"
    /\ cache.enabled
    /\ visit.fresh
    /\ cache_file.state = "json"
    /\ mods > 0
    /\ scans = MaxScans
    /\ result # {}

\* the last iteration handled a file the catalog had been given before
Revisit ==
    /\ visit.file # <<>>
    /\ ~visit.skipped
    /\ cache.enabled
    /\ visit.seen_before

\* C3 as stated: whenever an enabled cache meets a file again whose content is
\* what it was the last time, the fresh-check is true, the extractor does not
\* run and the import set is the one of the last time.
C3_AnyFile ==
    (Revisit /\ visit.seen_content = visit.content) =>
        /\ visit.fresh
        /\ ~visit.extracted
        /\ visit.imports = visit.seen_imports

\* C3 amended: the same for a file whose bytes can be read; for any file the
\* import set is the one of the last time.
C3_ReadableFile ==
    (Revisit /\ visit.seen_content = visit.content) =>
        /\ visit.imports = visit.seen_imports
        /\ FileContent(visit.content).readable => (visit.fresh /\ ~visit.extracted)

\* C3 witness: the second scan of an unchanged file with imports took them
\* from the catalog
C3_Witness ==
    /\ Revisit
    /\ visit.seen_content = visit.content
    /\ visit.fresh
    /\ ~visit.extracted
    /\ visit.imports # {}

\* C4: whenever an enabled cache meets a file again whose content differs from
\* what the entry was written for, the entry is not fresh, the imports are
\* extracted from the current content and the entry then holds the hash and
\* the imports of the current content.
C4_Invalidation ==
    (Revisit /\ visit.seen_content # visit.content) =>
        /\ ~visit.fresh
        /\ visit.extracted
        /\ visit.imports = extract_imports_from_file(visit.content)
        /\ DictHas(cache.cache_data, FileKey(visit.file))
        /\ LET e == DictGet(cache.cache_data, FileKey(visit.file))
           IN  /\ e.hash = get_file_hash(visit.content)
               /\ e.hash # get_file_hash(visit.seen_content)
               /\ e.has_imports
               /\ e.imports = extract_imports_from_file(visit.content)

\* C4 witness: a file was edited after its entry was written and the next scan
\* extracted other imports from it
C4_Witness ==
    /\ Revisit
    /\ visit.seen_content # visit.content
    /\ visit.extracted
    /\ visit.imports # visit.seen_imports
    /\ visit.imports # {}

\* C5: with the rule vendor/ loaded, vendor/lib.py contributes no import name,
\* whichever matcher is in use.
C5_VendorIgnored ==
    (/\ visit.file = project_root \o p_vendor_lib
     /\ <<"v","e","n","d","o","r","/">> \in Range(gitignore_handler.patterns))
    => visit.imports = {}

\* C6: no name of skip_imports is in the set a scan returns.
C6_SkipImports ==
    pc = "scanned" => \A n \in config.skip_imports : n \notin result

\* the names the extractor yields for the files the scan does not skip
SurvivingImports ==
    UNION {extract_imports_from_file(ContentAt(tree, project_root, f)) :
              f \in {g \in PyFiles(tree, project_root) :
                        ~SkipsFile(config.ignore_dirs, gitignore_handler, g, project_root)}}

\* a local module n exists: n.py or n/__init__.py at the project root or
\* under src/, or apps/n/__init__.py
LocalModuleExists(n) ==
    \E r \in TreePaths :
        /\ tree[r] # Absent
        /\ r \in {<<n \o DotPy>>, <<n, n_init_py>>, <<n_src, n \o DotPy>>,
                  <<n_src, n, n_init_py>>, <<n_apps, n, n_init_py>>}

\* C8 as stated: the returned set holds no name of the standard-library
\* catalog, and holds every name imported by a scanned file that is neither
\* in the catalog nor a local module.
C8_StdlibOnly ==
    pc = "scanned" =>
        /\ \A n \in result : n \notin get_dynamic_stdlib_modules(python_3_10)
        /\ \A n \in SurvivingImports :
              (n \notin get_dynamic_stdlib_modules(python_3_10) /\ ~LocalModuleExists(n))
                  => n \in result

\* C8 amended: ... that is neither in the catalog, nor a local module, nor one
\* of the reserved names __future__, __main__, __builtin__, builtins.
C8_StdlibAndReserved ==
    pc = "scanned" =>
        /\ \A n \in result : n \notin get_dynamic_stdlib_modules(python_3_10)
        /\ \A n \in SurvivingImports :
              (/\ n \notin get_dynamic_stdlib_modules(python_3_10)
               /\ ~LocalModuleExists(n)
               /\ n \notin {n_future, n_main_mod, n_builtin, n_builtins})
                  => n \in result

\* C8 witness: a scan of files importing os, requests and flask returned
\* requests and flask
C8_Witness ==
    /\ pc = "scanned"
    /\ {n_os, n_requests, n_flask} \subseteq all_imports
    /\ {n_requests, n_flask} \subseteq result
    /\ n_os \notin result

\* C9: the returned set holds no name for which a local module exists.
C9_NoLocalModule ==
    pc = "scanned" => \A n \in result : ~LocalModuleExists(n)

\* C9 witness: scanned files import helper, main and blog, which exist as
\* src/helper.py, main.py and apps/blog/__init__.py, and none is returned
C9_Witness ==
    /\ pc = "scanned"
    /\ {n_helper, n_main, n_blog} \subseteq all_imports
    /\ LocalModuleExists(n_helper)
    /\ LocalModuleExists(n_main)
    /\ LocalModuleExists(n_blog)
    /\ tree[p_src_helper] # Absent
    /\ result \cap {n_helper, n_main, n_blog} = {}
    /\ result # {}

\* C11: when analyze_dependencies has returned, every import name that has a
\* curated mapping, is not itself a name of the manifest and whose curated
\* target is a name of the manifest was resolved to the curated target, has
\* its matched entry, and neither it nor the target was reported missing.
C11_CuratedTarget ==
    an_pc = "done" =>
        \A i \in imports :
            (/\ DictHas(get_known_import_mappings, i)
             /\ i \notin requirements_packages
             /\ DictGet(get_known_import_mappings, i) \in requirements_packages)
            => LET target == DictGet(get_known_import_mappings, i)
               IN  /\ <<i, target>> \in resolved
                   /\ MatchedEntry(i, target) \in Range(matched_packages)
                   /\ target \notin Range(missing_packages)
                   /\ i \notin Range(missing_packages)

\* C11 witness: yaml was imported, the manifest names PyYAML and not yaml, the
\* installed metadata maps yaml to another distribution, and yaml was matched
\* against PyYAML with nothing missing for it
C11_Witness ==
    /\ an_pc = "done"
    /\ n_yaml \in imports
    /\ <<"P","y","Y","A","M","L">> \in requirements_packages
    /\ n_yaml \notin requirements_packages
    /\ DictHas(package_metadata_mappings, n_yaml)
    /\ MatchedEntry(n_yaml, <<"P","y","Y","A","M","L">>) \in Range(matched_packages)
    /\ <<"P","y","Y","A","M","L">> \notin Range(missing_packages)

\* the manifest is absent or holds nothing
EmptyManifest ==
    ~requirements_file.exists \/ (requirements_file.readable /\ requirements_file.lines = <<>>)

C13_CorruptCacheHarmless ==
    (/\ cache_file.state \in {"corrupt", "undecodable", "list"}
     /\ ~load_gitignore_patterns_raises(gitignore_file))
    => /\ pc # "raised"
       /\ pc = "scanned" =>
             result = find_imports_in_code(
                          [enabled |-> TRUE, cache_data |-> {}, is_dict |-> TRUE],
                          config.ignore_dirs, gitignore_handler, stdlib_modules,
                          tree, project_root)

\* the files the scan does not skip
SurvivingFiles ==
    {f \in PyFiles(tree, project_root) :
        ~SkipsFile(config.ignore_dirs, gitignore_handler, f, project_root)}

\* the text of a file can be read but does not parse as Python
FailsToParse(c) ==
    /\ c # Absent
    /\ FileContent(c).readable
    /\ FileContent(c).decodable
    /\ ~ParsesAsPython(FileContent(c).lines)

UnreadableSource(c) ==
    c # Absent /\ (~FileContent(c).readable \/ ~FileContent(c).decodable)

\* C15: a file the scan did not skip that cannot be read or decoded
\* contributes the empty import set and the scan goes on; a scan that returns
\* has collected exactly the imports of every other file it did not skip.
C15_UnreadableFile ==
    /\ (visit.file # <<>> /\ ~visit.skipped /\ UnreadableSource(visit.content))
       => /\ visit.imports = {}
          /\ pc \in {"scanning", "scanned"}
    /\ pc = "scanned" =>
          all_imports =
             UNION {extract_imports_from_file(ContentAt(tree, project_root, f)) :
                       f \in {g \in SurvivingFiles :
                                 ~UnreadableSource(ContentAt(tree, project_root, g))}}

\* C15 witness: main.py cannot be read and the scan returned numpy, imported
\* by another file
C15_Witness ==
    /\ pc = "scanned"
    /\ tree[p_main] = "unreadable"
    /\ project_root \o p_main \in SurvivingFiles
    /\ n_numpy \in result

\* the whitespace-stripped lines that are not blank and do not begin with #,
\* in the order of the file
RECURSIVE RulesOf(_)
RulesOf(lines) ==
    IF lines = <<>> THEN <<>>
    ELSE (IF Strip(Head(lines), Whitespace) = <<>>
             \/ Head(Strip(Head(lines), Whitespace)) = "#"
          THEN <<>>
          ELSE <<Strip(Head(lines), Whitespace)>>) \o RulesOf(Tail(lines))

\* the file's text cannot be read: open() fails, or its bytes are not UTF-8
CannotBeRead(file) == file.exists /\ (~file.readable \/ ~file.decodable)

\* C16: the construction does not raise over the ignore file, and the rules
\* the handler holds are the stripped, non-blank, non-comment lines of
\* .gitignore in file order, none if the file is absent or cannot be read.
C16_IgnoreRules ==
    /\ pc # "raised"
    /\ pc \notin {"none", "raised"} =>
          gitignore_handler.patterns =
             IF ~gitignore_file.exists \/ CannotBeRead(gitignore_file)
             THEN <<>>
             ELSE RulesOf(gitignore_file.lines)

\* the leading run of [A-Za-z0-9._-] of a stripped line: its longest prefix
\* made of these characters only
NameOfLine(line) ==
    LET k == CHOOSE j \in 0..Len(line) :
                 /\ \A i \in 1..j : line[i] \in RequirementNameChars
                 /\ j < Len(line) => line[j + 1] \notin RequirementNameChars
    IN  SubSeq(line, 1, k)

\* the stripped lines of the manifest that are neither blank nor comments
CandidateLines ==
    {l \in {Strip(requirements_file.lines[i], Whitespace) :
                i \in DOMAIN requirements_file.lines} :
        l # <<>> /\ Head(l) # "#"}

\* C17: the declared set analyze_dependencies works with is the set of the
\* leading runs of [A-Za-z0-9._-] of the stripped, non-blank, non-comment
\* lines of the manifest, without the lines that have no such run; no name
\* holds a character of a version specifier.
C17_DeclaredNames ==
    (an_pc \in {"loop", "done"} /\ requirements_file.exists /\ requirements_file.readable)
    => /\ requirements_packages =
             {NameOfLine(l) : l \in {m \in CandidateLines : NameOfLine(m) # <<>>}}
       /\ \A n \in requirements_packages :
             /\ n # <<>>
             /\ Range(n) \cap {"=", "<", ">", "~", "!", " ", "#", ";", "["} = {}

\* C17 witness: a manifest with a comment, a blank line, an option line and a
\* line starting with `=` declared -r and yaml_stub, and one with pinned
\* versions declared the names before the specifiers
C17_Witness ==
    /\ an_pc = "done"
    /\ Len(requirements_file.lines) = 5
    /\ \/ /\ requirements_packages = {<<"-", "r">>, <<"y","a","m","l","_","s","t","u","b">>}
          /\ <<"=","b","r","o","k","e","n">> \in Range(requirements_file.lines)
       \/ /\ requirements_packages = {<<"P","y","Y","A","M","L">>, <<"M","y",".","M","o","d">>, <<"n","u","m","p","y">>}
          /\ <<"M","y",".","M","o","d","~","=","1",".","0">> \in Range(requirements_file.lines)

\* a component of the path is an entry of ignoreDirs, or the IgnoreMatcher
\* reports the path excluded
MustSkip(f) ==
    \/ Range(f) \cap config.ignore_dirs # {}
    \/ is_ignored(gitignore_handler, f, project_root)

\* C18: the loop skips a file exactly if a component of its path is an entry
\* of ignoreDirs or the IgnoreMatcher excludes it; a skipped file is not
\* extracted from, has no catalog entry and adds nothing; when the scan
\* returns every other .py file below the root has been processed: its
\* imports are in the union and, with the cache enabled, it has its entry.
C18_SkipRule ==
    /\ visit.file # <<>> =>
          /\ visit.skipped <=> MustSkip(visit.file)
          /\ visit.skipped => (~visit.extracted /\ ~visit.fresh /\ visit.imports = {})
    /\ pc \in {"scanning", "scanned"} =>
          \A f \in PyFiles(tree, project_root) :
             MustSkip(f) => ~DictHas(cache.cache_data, FileKey(f))
    /\ pc = "scanned" =>
          /\ all_imports =
                UNION {extract_imports_from_file(ContentAt(tree, project_root, f)) :
                          f \in {g \in PyFiles(tree, project_root) : ~MustSkip(g)}}
          /\ cache.enabled =>
                DictKeys(cache.cache_data) =
                   {FileKey(f) : f \in {g \in PyFiles(tree, project_root) : ~MustSkip(g)}}

\* C18 witness: with src in ignoreDirs and the rule vendor/ in force,
\* src/helper.py and vendor/lib.py were skipped and main.py was processed and
\* has the only catalog entry
C18_Witness ==
    /\ pc = "scanned"
    /\ n_src \in config.ignore_dirs
    /\ tree[p_src_helper] # Absent
    /\ tree[p_vendor_lib] = "lib"
    /\ tree[p_main] = "app"
    /\ MustSkip(project_root \o p_src_helper)
    /\ is_ignored(gitignore_handler, project_root \o p_vendor_lib, project_root)
    /\ cache.enabled
    /\ DictKeys(cache.cache_data) = {FileKey(project_root \o p_main)}
    /\ n_requests \in result
    /\ n_numpy \notin all_imports

\* C19 (original statement): load_config always returns (it never raises, an
\* unreadable or malformed config file included), and what it returns holds
\* every default key; the values of a non-empty explicit config replace the
\* defaults key by key whatever the config file is; with no explicit config and
\* a config file that is unreadable or malformed the result is the defaults.
Malformed(config_file) ==
    config_file.given /\ config_file.exists
    /\ (~config_file.readable \/ ~config_file.decodable \/ config_file.json # "object")
C19_LoadConfig ==
    /\ lc_pc # "raised"
    /\ lc_pc = "returned" =>
        /\ DOMAIN default_config \subseteq DOMAIN lc_result
        /\ DOMAIN lc_config # {} =>
              \A k \in DOMAIN default_config :
                  lc_result[k] = IF k \in DOMAIN lc_config THEN lc_config[k]
                                 ELSE default_config[k]
        /\ (DOMAIN lc_config = {} /\ Malformed(lc_config_file)) =>
              lc_result = default_config

\* the catalog entry of the file of the last visit holds the hash of the
\* content that was read and the imports extracted from it
VisitStored ==
    /\ DictHas(cache.cache_data, FileKey(visit.file))
    /\ LET entry == DictGet(cache.cache_data, FileKey(visit.file))
       IN  /\ entry.hash = get_file_hash(visit.content)
           /\ entry.imports = extract_imports_from_file(visit.content)
FreshlyParsed == pc \in {"scanning", "scanned"} /\ visit.extracted

\* C20 (original statement): a surviving file that is not fresh is extracted
\* and the result is written into the catalog whether or not caching is
\* enabled, so that after a scan every surviving file has a catalog entry with
\* its hash.
C20_WriteBackAlways ==
    /\ FreshlyParsed => VisitStored
    /\ pc = "scanned" =>
          \A f \in SurvivingFiles :
              /\ DictHas(cache.cache_data, FileKey(f))
              /\ DictGet(cache.cache_data, FileKey(f)).hash =
                    get_file_hash(ContentAt(tree, project_root, f))

\* C20 (amended): a surviving file that is not fresh is extracted and the
\* result is written into the catalog when caching is enabled and is not
\* written when it is disabled: after a scan with enable_cache true every
\* surviving file has a catalog entry with its hash (a freshly parsed one with
\* the imports extracted from it), after a scan with enable_cache false the
\* catalog is empty.
C20_WriteBackWhenEnabled ==
    /\ FreshlyParsed =>
          IF cache.enabled THEN VisitStored
          ELSE ~DictHas(cache.cache_data, FileKey(visit.file))
    /\ pc = "scanned" =>
          IF cache.enabled
          THEN \A f \in SurvivingFiles :
                  /\ DictHas(cache.cache_data, FileKey(f))
                  /\ DictGet(cache.cache_data, FileKey(f)).hash =
                        get_file_hash(ContentAt(tree, project_root, f))
          ELSE cache.cache_data = {}
\* a scan with caching disabled has parsed a file that imports something
C20_Witness ==
    /\ pc = "scanned" /\ ~cache.enabled
    /\ visit.extracted /\ visit.imports # {}
    /\ SurvivingFiles # {}

\* C21: is_file_cached is truthy only for a path with a catalog entry whose
\* stored hash is the MD5 of the file's current bytes and which holds an import
\* set; with no entry, another hash, no imports in the entry or a file that
\* cannot be read it is not fresh.  Stated of every file of the project in
\* every state the checker reaches.
C21_Freshness ==
    \A f \in PyFiles(tree, project_root) :
        LET c == ContentAt(tree, project_root, f) IN
        is_file_cached(cache, f, c) =>
            /\ FileContent(c).readable
            /\ \E e \in cache.cache_data :
                  /\ e[1] = PathStr(f)
                  /\ e[2].hash = Md5(c)
                  /\ e[2].has_imports
\* a file is visited whose entry has the hash of its content but no imports:
\* it is parsed
C21_Witness ==
    /\ pc = "scanning"
    /\ visit.extracted /\ ~visit.fresh
    /\ cache_file = CacheFileOfOldRun
    /\ visit.file = <<Slash, <<"w">>>> \o p_main
    /\ visit.content = "app"

\* C22: in a run of analyze_dependencies the cache file on disk is written
\* only by the save that follows the scan of every file and the analysis: no
\* step taken while files remain to be scanned, and no step of a run that ended
\* with an error, changes the file.
C22_SaveAfterScan ==
    [][cache_file' # cache_file =>
          /\ pc = "analyzed" /\ pc' = "saved"
          /\ todo = {}
          /\ cache.enabled]_vars
\* the analysis of a run ended with an error after a scan that filled the
\* catalog: the cache file is still absent
C22_Witness ==
    /\ pc = "raised"
    /\ cache.enabled /\ cache.is_dict /\ cache.cache_data # {}
    /\ get_requirements_packages_raises(requirements_file)
    /\ cache_file = NoCacheFile

\* the file holds no import statement
NoImportStatements(c) ==
    /\ c # Absent
    /\ \A i \in DOMAIN FileContent(c).lines :
          FileContent(c).lines[i].kind \notin {"import", "from"}

\* C23: a source file without import statements contributes the empty set,
\* whether it parses (syntax-tree extraction) or fails to parse (line-oriented
\* fallback).
C23_NoImports ==
    (pc \in {"scanning", "scanned"} /\ visit.extracted /\ NoImportStatements(visit.content))
        => visit.imports = {}

\* the names a distribution publishes in top_level.txt, one per line
PublishedNames(dist) ==
    IF dist.has_top_level
    THEN {n \in Range(Split(dist.top_level, <<"\n">>)) : n # <<>>}
    ELSE {}
\* the keys one distribution is harvested under
HarvestKeys(dist) ==
    PublishedNames(dist)
        \cup {ReplaceChar(ReplaceChar(dist.project_name, "-", "_"), ".", "_")}

\* C24: with the metadata harvested from the installed distributions, every
\* name a distribution D publishes, and D's own name with - and . replaced by
\* _, resolves to D, unless the name has a curated entry or a later
\* distribution is harvested under the same name.
C24_Harvest ==
    an_pc # "off" =>
      \A env \in Environments :
        (env.has_pkg_resources
         /\ package_metadata_mappings = get_package_metadata_mappings(env)) =>
          \A i \in DOMAIN env.working_set :
            \A n \in HarvestKeys(env.working_set[i]) :
               (/\ ~DictHas(get_known_import_mappings, n)
                /\ \A j \in DOMAIN env.working_set :
                      j > i => n \notin HarvestKeys(env.working_set[j]))
               => enhanced_package_matching(get_known_import_mappings,
                                            package_metadata_mappings, n)
                     = env.working_set[i].project_name

\* the fallback matcher is in use
FallbackInUse ==
    \/ ~config.use_pathspec
    \/ ~HAS_PATHSPEC
    \/ from_lines_raises(gitignore_handler.patterns)
\* some loaded pattern matches (fnmatch) the path relative to the project
\* root or one of the ancestor directories of that relative path
GlobIgnored(f) ==
    /\ IsRelativeTo(f, project_root)
    /\ \E i \in DOMAIN gitignore_handler.patterns :
          LET rel == RelativeTo(f, project_root) IN
          \/ FnMatch(PathStr(rel), gitignore_handler.patterns[i])
          \/ \E n \in 0..(Len(rel) - 1) :
                FnMatch(PathStr(SubSeq(rel, 1, n)), gitignore_handler.patterns[i])
OutsidePath == <<Slash, <<"e","t","c">>, <<"x",".","p","y">>>>

\* C25: once the handler is constructed, is_ignored uses the fallback matcher
\* exactly when use_pathspec is false, the engine is not installed or its
\* matcher could not be built, and the engine's matcher otherwise; with the
\* fallback, is_ignored(path) is true exactly when a loaded pattern matches
\* the path relative to the project root or an ancestor directory of it, and
\* false for a path outside the project root.
C25_FallbackMatcher ==
    pc \in {"ready", "scanning", "scanned"} =>
        \A f \in PyFiles(tree, project_root) \cup {OutsidePath} :
            IF FallbackInUse
            THEN is_ignored(gitignore_handler, f, project_root) <=> GlobIgnored(f)
            ELSE is_ignored(gitignore_handler, f, project_root)
                    <=> is_ignored_by_pathspec(gitignore_handler.patterns, f, project_root)

\* C26: after any scans and modifications, a modification between the read
\* for extraction and the read for hashing included, a file that
\* is_file_cached calls fresh has as cached import set what extraction yields
\* from its current content.
C26_Coherence ==
    \A f \in PyFiles(tree, project_root) :
        LET c == ContentAt(tree, project_root, f) IN
        is_file_cached(cache, f, c) =>
            get_cached_imports(cache, f) = extract_imports_from_file(c)

\* C27: between the construction of the checker and the end of the process,
\* every catalog entry stays as it is (hash, imports, timestamp), except the
\* entry of a file that an iteration of the scan has just parsed, which is
\* overwritten; no key is removed: the entry of a file found fresh, of a file
\* that was deleted and of a file the scan skips is left alone.
C27_Frame ==
    [][(pc # "none" /\ pc' # "none") =>
          \A e \in cache.cache_data :
              \/ e \in cache'.cache_data
              \/ /\ pc = "scanning"
                 /\ visit'.extracted /\ ~visit'.fresh
                 /\ e[1] = FileKey(visit'.file)
                 /\ DictHas(cache'.cache_data, e[1])]_vars
\* a scan found a file fresh while the catalog holds the entry of a file
\* that is not in the project
C27_Witness ==
    /\ pc \in {"scanning", "scanned"}
    /\ visit.fresh
    /\ \E e \in cache.cache_data :
          e[1] \notin {FileKey(f) : f \in PyFiles(tree, project_root)}

\* the positions of a list that hold the value v
Positions(s, v) == {k \in DOMAIN s : s[k] = v}

\* C28: when analyze_dependencies has returned for a set of non-empty import
\* names, every import name has either its one matched entry or one
\* occurrence of its package name in missing, never both: matched and missing
\* together are as long as the import set, and missing holds a package name
\* once per unmatched import name that resolved to it.
C28_Partition ==
    (an_pc = "done" /\ <<>> \notin imports) =>
        /\ Len(matched_packages) + Len(missing_packages) = Cardinality(imports)
        /\ DictKeys(resolved) = imports
        /\ \A r \in resolved :
              Cardinality(Positions(matched_packages, MatchedEntry(r[1], r[2]))) <= 1
        /\ \A p \in Range(missing_packages) \cup {r[2] : r \in resolved} :
              Cardinality(Positions(missing_packages, p)) =
                 Cardinality({r \in resolved :
                                /\ r[2] = p
                                /\ Positions(matched_packages,
                                             MatchedEntry(r[1], r[2])) = {}})

\* C28 witness: yaml and PyYAML were imported, both resolve to PyYAML, which
\* is not declared, and missing holds PyYAML twice next to the entry of flask
C28_Witness ==
    /\ an_pc = "done"
    /\ imports = {n_yaml, <<"P","y","Y","A","M","L">>, n_flask}
    /\ <<n_yaml, <<"P","y","Y","A","M","L">>>> \in resolved
    /\ <<<<"P","y","Y","A","M","L">>, <<"P","y","Y","A","M","L">>>> \in resolved
    /\ Cardinality(Positions(missing_packages, <<"P","y","Y","A","M","L">>)) = 2
    /\ Len(missing_packages) = 3
    /\ matched_packages = <<>>

\* the lines of a file with the leading dots of every from-import removed
WithoutLeadingDots(lines) ==
    [i \in DOMAIN lines |->
        IF lines[i].kind = "from" THEN [lines[i] EXCEPT !.level = 0] ELSE lines[i]]

\* the first segments of the modules named by the relative from-imports of c
RelativeModules(c) ==
    LET lines == FileContent(c).lines
    IN  {Head(lines[i].modules[1]) :
            i \in {j \in DOMAIN lines : /\ lines[j].kind = "from"
                                        /\ lines[j].level >= 1
                                        /\ lines[j].modules[1] # <<>>}}

\* the text of a file was read and parses as Python
ParsesFine(c) ==
    /\ c # Absent
    /\ FileContent(c).readable
    /\ FileContent(c).decodable
    /\ ParsesAsPython(FileContent(c).lines)

\* C29: when the syntax tree of a file was walked, the file contributed what
\* it would contribute with the leading dots of its from-imports removed: the
\* first segment of the module of every relative from-import that names one,
\* and nothing for `from . import x`; and when the scan returns, such a
\* segment is in the result unless it is a standard-library name, a reserved
\* name, or a module found at the project root, under src/ or under apps/.
C29_RelativeFrom ==
    /\ (visit.file # <<>> /\ visit.extracted /\ ParsesFine(visit.content))
       => LET lines == FileContent(visit.content).lines
          IN  /\ visit.imports = extract_imports_from_ast(WithoutLeadingDots(lines))
              /\ RelativeModules(visit.content) \subseteq visit.imports
              /\ visit.imports =
                    UNION {{Head(lines[i].modules[j]) : j \in DOMAIN lines[i].modules} :
                              i \in {k \in DOMAIN lines :
                                        /\ lines[k].kind \in {"import", "from"}
                                        /\ lines[k].modules[1] # <<>>}}
              /\ visit.imports \subseteq all_imports
    /\ pc = "scanned" =>
          \A f \in SurvivingFiles :
             LET c == ContentAt(tree, project_root, f)
             IN  ParsesFine(c) =>
                   \A m \in RelativeModules(c) :
                      m \in result <=> ~(\/ m \in stdlib_modules
                                         \/ m \in ReservedNames
                                         \/ LocalModuleExists(m))

\* C29 witness: main.py holds `from .yaml.linalg import x`, `from ..helper
\* import x`, `from ...json import x` and `from . import x`; the scan
\* returned yaml, and dropped helper, which is src/helper.py, and json
C29_Witness ==
    /\ pc = "scanned"
    /\ tree[p_main] = "pkg"
    /\ visit.file = project_root \o p_main
    /\ visit.extracted
    /\ visit.imports = {n_yaml, n_helper, n_json}
    /\ tree[p_src_helper] # Absent
    /\ n_yaml \in result
    /\ n_helper \notin result
    /\ n_json \notin result

\* a component of the project root is an entry of ignore_dirs
RootIgnored == \E i \in DOMAIN project_root : project_root[i] \in config.ignore_dirs

====
